---- MODULE Spec2Model ----
(***************************************************************************)
(* The fletch bytecode interpreter (src/vm/interpreter.cc): the Engine's   *)
(* dispatch loop over a byte-addressed code memory, the per-coroutine      *)
(* stacks, the three method dispatch strategies, the GC retry protocol,    *)
(* the exception unwinder and the surrender protocol of Interpret.         *)
(***************************************************************************)
EXTENDS Integers, Sequences, FiniteSets, TLC

VARIABLES
  bcp,           \* State::bcp_, an address of the code memory
  sp,            \* State::sp_, an index into the current stack's memory
  stacks,        \* Stack objects: [mem |-> slots, top |-> Stack::top()]
  heap,          \* heap objects: instances, boxed cells, coroutines
  coroutine,     \* Process::coroutine_, a heap index
  interruption,  \* Interpreter::interruption_ ("Running" while in Interpret)
  yield_target,  \* the Port** out-parameter of Interpret
  debug,         \* Process::debug_info(): attached, breakpoints, is_at_breakpoint
  session,       \* Program::session(): debugging, count of UncaughtException()
  gc_count,      \* number of Process::CollectGarbage() calls
  exit_status,   \* the status of exit(), -1 while the OS process lives
  scenario,      \* the program run: its entry, coroutine bodies and catch blocks
  last,          \* history: the opcode executed last and the state it saw
  retry,         \* history: the pending GC retry, if any
  frames,        \* history: per stack, the return addresses pushed by calls
  parked,        \* history: per stack, what its coroutine saved when it left
  process_calls, \* history: the calls this Interpreter::Run made on process_
  libraries_,    \* ForeignFunctionInterface::libraries_, an entry or 0 (NULL)
  mutex_,        \* ForeignFunctionInterface::mutex_: alive, and its holder
  entries,       \* the DefaultLibraryEntry objects made, deleted ones included
  threads,       \* per thread, where it is inside the interface
  teardowns,     \* number of TearDown calls begun
  kBitsPerWord,  \* the word size of the build
  memory,        \* the buffers of ForeignAllocate
  answer         \* history: the memory native called last and its result

engine_vars == <<bcp, sp, stacks, heap, coroutine, interruption, yield_target,
                 debug, session, gc_count, exit_status, scenario, last, retry,
                 frames, parked, process_calls>>
ffi_vars == <<libraries_, mutex_, entries, threads, teardowns, kBitsPerWord,
              memory, answer>>
beside_registry == <<engine_vars, kBitsPerWord, memory, answer>>
beside_memory == <<engine_vars, libraries_, mutex_, entries, threads, teardowns>>
vars == <<engine_vars, ffi_vars>>

(***************************************************************************)
(* Bounds of the model.                                                    *)
(***************************************************************************)
MaxGC == 2          \* allocation failures (hence collections) per run
MaxGrow == 2        \* times the process grows a stack

(***************************************************************************)
(* Values: tagged words.                                                   *)
(***************************************************************************)
Null == <<"null", 0>>
True == <<"true", 0>>
False == <<"false", 0>>
Smi(n) == <<"smi", n>>
Addr(a) == <<"bcp", a>>
Obj(i) == <<"obj", i>>
Fn(a) == <<"function", a>>
Failure(k) == <<"failure", k>>

retry_after_gc == Failure(0)
index_out_of_bounds == Failure(1)

IsFailure(v) == v[1] = "failure"
IsSmi(v) == v[1] = "smi"

\* Double and LargeInteger objects: the tag and the object's identity. The
\* program's objects of both kinds, with Double::value() as NaN or a sign
\* and a magnitude, and LargeInteger::value() as the high and the low half
\* of the int64: two NaNs, both zeros and two objects of value 1.0; two
\* objects of the same int64 and two that differ in one half each.
Numbers ==
  [double |-> <<[nan |-> TRUE, negative |-> FALSE, magnitude |-> 0],
                [nan |-> TRUE, negative |-> TRUE, magnitude |-> 0],
                [nan |-> FALSE, negative |-> FALSE, magnitude |-> 0],
                [nan |-> FALSE, negative |-> TRUE, magnitude |-> 0],
                [nan |-> FALSE, negative |-> FALSE, magnitude |-> 1],
                [nan |-> FALSE, negative |-> FALSE, magnitude |-> 1]>>,
   large |-> <<<<1, 0>>, <<1, 0>>, <<1, 1>>, <<0, 0>>>>]

\* A failure turned into null, and a failure left as it is.
FailureAsNull(f) == Null
FailureItself(f) == f

ObjectFromFailure(f) == <<"error", f[2]>>

(***************************************************************************)
(* Selectors (src/shared/selectors.h): arity, kind and id bit fields.      *)
(***************************************************************************)
SETTER == 2      \* Selector::Kind: METHOD is 0, GETTER 1, SETTER 2
Encode(id, kind, arity) == arity + 256 * kind + 1024 * id
ArityField(selector) == selector % 256
KindField(selector) == (selector \div 256) % 4
IdField(selector) == selector \div 1024

(***************************************************************************)
(* Bytecodes (src/shared/bytecodes.h): the length of each opcode.          *)
(***************************************************************************)
BuiltinKinds == {"Eq", "Lt", "Le", "Gt", "Ge", "Add", "Sub", "Mod", "Mul",
                 "TruncDiv", "BitNot", "BitAnd", "BitOr", "BitXor", "BitShr",
                 "BitShl"}

InvokeBuiltinOps == {"Invoke" \o k : k \in BuiltinKinds}
InvokeBuiltinFastOps == {"Invoke" \o k \o "Fast" : k \in BuiltinKinds}
InvokeBuiltinVtableOps == {"Invoke" \o k \o "Vtable" : k \in BuiltinKinds}

IsInvokeNormal(op) == op \in {"InvokeMethod"} \cup InvokeBuiltinOps
IsInvokeFast(op) == op \in {"InvokeMethodFast"} \cup InvokeBuiltinFastOps
IsInvokeVtable(op) == op \in {"InvokeMethodVtable"} \cup InvokeBuiltinVtableOps

Length(op) ==
  CASE op \in {"LoadLocal0", "LoadLocal1", "LoadLocal2", "LoadLiteralNull",
               "LoadLiteralTrue", "LoadLiteralFalse", "LoadLiteral0",
               "LoadLiteral1", "Pop", "AllocateBoxed", "Negate", "Throw",
               "ProcessYield", "CoroutineChange", "Identical",
               "IdenticalNonNumeric", "EnterNoSuchMethod", "ExitNoSuchMethod",
               "SubroutineReturn"} -> 1
    [] op \in {"LoadLocal", "LoadBoxed", "LoadField", "StoreLocal",
               "StoreBoxed", "StoreField", "LoadLiteral", "BranchBack",
               "BranchBackIfTrue", "BranchBackIfFalse", "FrameSize"} -> 2
    [] op \in {"InvokeNative", "InvokeNativeYield", "Return"} -> 3
    [] op \in {"PopAndBranchLong", "PopAndBranchBackLong"} -> 6
    [] op = "SubroutineCall" -> 9
    [] OTHER -> 5


\* Utils::ReadInt32 reads four bytes in host (little endian) order as a
\* two's complement int32; Int32 is the inverse, used to lay out operands.
Int32(n) ==
  LET p == IF n < 0 THEN (n + 2147483647) + 1 ELSE n
      high == (p \div 16777216) + (IF n < 0 THEN 128 ELSE 0)
  IN  <<p % 256, (p \div 256) % 256, (p \div 65536) % 256, high>>

ReadInt32At(code, a) ==
  LET high == IF code[a + 3] >= 128 THEN code[a + 3] - 256 ELSE code[a + 3]
  IN  code[a] + 256 * code[a + 1] + 65536 * code[a + 2] + 16777216 * high

(***************************************************************************)
(* The program: classes, call sites, functions and dispatch tables.        *)
(***************************************************************************)
\* Class ids.
Class ==
  [Smi |-> 1, A |-> 2, B |-> 3, C |-> 4, K1 |-> 5, K2 |-> 6, Coroutine |-> 7]

\* Class::NumberOfInstanceFields per class id.
NumberOfInstanceFields(klass) ==
  CASE klass = Class.K1 -> 1
    [] klass = Class.K2 -> 2
    [] klass = Class.Coroutine -> 2
    [] OTHER -> 0

kStackOffset == 1      \* Coroutine field holding the stack
kCallerOffset == 2     \* Coroutine field holding the caller

\* The call sites of the program and what each flavour of invoke carries:
\* the selector, the index of the site's dispatch table segment, and the
\* selector whose id field holds the vtable offset. Site foo calls a method
\* of no argument, site bar a setter.
Site ==
  [foo |-> [selector |-> Encode(1, 0, 0), index |-> 0, offset |-> 1,
            vselector |-> Encode(1, 0, 0)],
   bar |-> [selector |-> Encode(2, SETTER, 1), index |-> 12, offset |-> 4,
            vselector |-> Encode(4, SETTER, 1)]]

\* The selector of noSuchMethod, which the trampoline invokes.
NoSuchMethodSelector == Encode(3, 0, 1)

kMaxValue == 1073741823      \* Smi::kMaxValue

\* The Function objects: Fn(i) is the function whose bytecodes are
\* Functions[i].
Function ==
  [NatVal |-> 1, NatSend |-> 2, NatRecv |-> 3, Mk |-> 4,
   Init |-> 5, Foo |-> 6, Bar |-> 7, NsmImpl |-> 8,
   Trampoline |-> 9, Rec |-> 10, MainRec |-> 11, MainLoop |-> 12,
   MainStatic |-> 13, MainAlloc |-> 14, MainDisp |-> 15, MainCo |-> 16,
   BodyYield |-> 17, BodyThrow |-> 18, BodyDeeper |-> 19, MainTest |-> 20,
   NatNum |-> 21, MainIdent |-> 22]

\* The bytecodes of the functions, in the order they lie in memory. Static
\* methods 0..5 are NatVal, NatSend, NatRecv, Mk, Rec and NatNum.
Functions ==
  <<
    \* 1: NatVal
    <<"InvokeNative", 0, 0, "Throw">>,
    \* 2: NatSend
    <<"InvokeNativeYield", 1, 1, "Throw">>,
    \* 3: NatRecv
    <<"InvokeNative", 0, 2, "Throw">>,
    \* 4: Mk
    <<"LoadLiteral1", "Return", 1, 0>>,
    \* 5: Init
    <<"LoadLiteral0", "Return", 1, 0>>,
    \* 6: Foo
    <<"LoadLiteral1", "Return", 1, 1>>,
    \* 7: Bar
    <<"LoadLocal1", "Return", 1, 2>>,
    \* 8: NsmImpl
    <<"LoadLiteralFalse", "Return", 1, 2>>,
    \* 9: Trampoline
    <<"EnterNoSuchMethod", "InvokeMethod">> \o Int32(NoSuchMethodSelector)
    \o <<"ExitNoSuchMethod">>,
    \* 10: Rec
    <<"StackOverflowCheck">> \o Int32(2)            \*  0
    \o <<"InvokeStatic">> \o Int32(0)                 \*  5
    \o <<"BranchIfFalseLong">> \o Int32(13)           \* 10
    \o <<"InvokeStatic">> \o Int32(4)                 \* 15
    \o <<"Return", 1, 0>>                             \* 20
    \o <<"LoadLiteral0", "Return", 1, 0>>,           \* 23
    \* 11: MainRec
    <<"InvokeStatic">> \o Int32(4)
    \o <<"Pop", "LoadLiteralNull", "Pop", "LoadLiteralTrue", "ProcessYield">>,
    \* 12: MainLoop
    <<"LoadLiteral0", "LoadLiteral0", "LoadLiteral0", "LoadLiteral0">>  \*  0
    \o <<"LoadLiteral0", "LoadLiteral0", "LoadLiteral0">>  \*  4
    \o <<"InvokeStatic">> \o Int32(0)             \*  7
    \o <<"BranchBackIfTrue", 5>>                  \* 12
    \o <<"InvokeStatic">> \o Int32(0)             \* 14
    \o <<"BranchBackIfFalse", 12>>                \* 19
    \o <<"InvokeStatic">> \o Int32(0)             \* 21
    \o <<"BranchBackIfTrueLong">> \o Int32(19)    \* 26
    \o <<"InvokeStatic">> \o Int32(0)             \* 31
    \o <<"BranchBackIfFalseLong">> \o Int32(29)   \* 36
    \o <<"InvokeStatic">> \o Int32(0)             \* 41
    \o <<"BranchIfTrueLong">> \o Int32(15)        \* 46
    \o <<"LoadLiteral0", "LoadLiteral0", "LoadLiteral0", "LoadLiteral0">>  \* 51
    \o <<"PopAndBranchBackLong", 4>> \o Int32(48) \* 55
    \o <<"InvokeStatic">> \o Int32(0)             \* 61
    \o <<"BranchIfTrueLong">> \o Int32(7)         \* 66
    \o <<"BranchBack", 64>>                       \* 71
    \o <<"InvokeStatic">> \o Int32(0)             \* 73
    \o <<"BranchIfFalseLong">> \o Int32(10)       \* 78
    \o <<"BranchBackLong">> \o Int32(76)          \* 83
    \o <<"LoadLiteralTrue", "ProcessYield">>,     \* 88
    \* 13: MainStatic
    <<"LoadStaticInit">> \o Int32(0)                \*  0
    \o <<"LoadStaticInit">> \o Int32(1)               \*  5
    \o <<"InvokeFactory">> \o Int32(3)                \* 10
    \o <<"InvokeStaticUnfold">> \o Int32(22)          \* 15
    \o <<"InvokeFactoryUnfold">> \o Int32(17)         \* 20
    \o <<"InvokeStatic">> \o Int32(3)                 \* 25
    \o <<"InvokeStatic">> \o Int32(1)                 \* 30
    \o <<"LoadLiteralTrue", "ProcessYield">>          \* 35
    \o <<Fn(Function.Mk)>>,                                    \* 37: constant, Mk
    \* 14: MainAlloc
    <<"InvokeStatic">> \o Int32(0)                  \*  0
    \o <<"InvokeStatic">> \o Int32(0)                 \*  5
    \o <<"AllocateImmutable">> \o Int32(Class.K2)     \* 10
    \o <<"AllocateBoxed">>                            \* 15
    \o <<"LoadLiteral0">>                             \* 16
    \o <<"AllocateUnfold">> \o Int32(24)              \* 17
    \o <<"AllocateImmutableUnfold">> \o Int32(20)     \* 22
    \o <<"Allocate">> \o Int32(Class.K1)              \* 27
    \o <<"InvokeStatic">> \o Int32(0)                 \* 32
    \o <<"ProcessYield">>                             \* 37
    \o <<"Pop", "LoadLiteralTrue", "ProcessYield">>   \* 38
    \o <<<<"class", Class.K1>>, <<"class", Class.K2>>>>,  \* 41, 42: constants
    \* 15: MainDisp
    <<"InvokeStatic">> \o Int32(2)                  \*  0
    \o <<"LoadLocal0">>                               \*  5
    \o <<"InvokeMethod">> \o Int32(Site.foo.selector) \*  6
    \o <<"Pop", "LoadLocal0">>                        \* 11
    \o <<"InvokeMethodFast">> \o Int32(Site.foo.index)  \* 13
    \o <<"Pop", "LoadLocal0">>                        \* 18
    \o <<"InvokeMethodVtable">> \o Int32(Site.foo.vselector)  \* 20
    \o <<"Pop", "LoadLocal0", "LoadLiteral1">>        \* 25
    \o <<"InvokeAdd">> \o Int32(Site.bar.selector)    \* 28
    \o <<"Pop", "LoadLocal0", "LoadLiteral1">>        \* 33
    \o <<"InvokeEqFast">> \o Int32(Site.bar.index)    \* 36
    \o <<"Pop", "LoadLocal0", "LoadLiteral1">>        \* 41
    \o <<"InvokeLtVtable">> \o Int32(Site.bar.vselector)  \* 44
    \o <<"Pop", "LoadLiteralTrue", "ProcessYield">>, \* 49
    \* 16: MainCo
    <<"LoadLocal1", "LoadLocal", 3>>                  \*  0
    \o <<"StoreField", 1, "Pop", "LoadLocal1">>       \*  3
    \o <<"InvokeStatic">> \o Int32(0)                 \*  7
    \o <<"CoroutineChange">>                          \* 12
    \o <<"Pop", "LoadLiteralTrue", "ProcessYield">>, \* 13
    \* 17: BodyYield
    <<"LoadLiteral0", "LoadLiteral0", "CoroutineChange">>   \*  0
    \o <<"LoadLocal", 3, "LoadField", 1, "LoadLocal1">>     \*  3
    \o <<"CoroutineChange">>                                \*  8
    \o <<"LoadLiteralTrue", "ProcessYield">>,              \*  9
    \* 18: BodyThrow
    <<"LoadLiteral0", "LoadLiteral0", "CoroutineChange", "Throw">>,
    \* 19: BodyDeeper
    <<"LoadLiteral0", "LoadLiteral0", "CoroutineChange">>   \*  0
    \o <<"LoadLocal2", "LoadLocal", 4, "StoreField", 1>>    \*  3
    \o <<"Pop", "LoadLocal2", "LoadLocal1">>                \*  8
    \o <<"CoroutineChange">>                                \* 11
    \o <<"LoadLocal", 4, "LoadField", 1, "LoadLocal1">>     \* 12
    \o <<"CoroutineChange">>                                \* 17
    \o <<"LoadLiteralTrue", "ProcessYield">>,             \* 18
    \* 20: MainTest
    <<"InvokeStatic">> \o Int32(2)                  \*  0
    \o <<"LoadLocal0">>                               \*  5
    \o <<"InvokeTest">> \o Int32(Site.foo.selector)   \*  6
    \o <<"Pop", "LoadLocal0">>                        \* 11
    \o <<"InvokeTestFast">> \o Int32(Site.foo.index)  \* 13
    \o <<"Pop", "LoadLocal0">>                        \* 18
    \o <<"InvokeTestVtable">> \o Int32(Site.foo.vselector)  \* 20
    \o <<"Pop", "LoadLocal0">>                        \* 25
    \o <<"InvokeTest">> \o Int32(Site.bar.selector)   \* 27
    \o <<"Pop", "LoadLocal0">>                        \* 32
    \o <<"InvokeTestFast">> \o Int32(Site.bar.index)  \* 34
    \o <<"Pop", "LoadLocal0">>                        \* 39
    \o <<"InvokeTestVtable">> \o Int32(Site.bar.vselector)  \* 41
    \o <<"Pop", "LoadLiteralTrue", "ProcessYield">>, \* 46
    \* 21: NatNum
    <<"InvokeNative", 1, 3, "Throw">>,
    \* 22: MainIdent
    <<"LoadLiteral0", "InvokeStatic">> \o Int32(5)  \*  0
    \o <<"LoadLiteral0", "InvokeStatic">> \o Int32(5)  \*  6
    \o <<"LoadLocal1", "LoadLocal1", "Identical", "Pop">>   \* 12
    \o <<"LoadLocal1", "LoadLocal1", "IdenticalNonNumeric">>  \* 16
    \o <<"Pop", "LoadLiteralTrue", "ProcessYield">>>>      \* 19

\* The bytecodes of the first n functions; address 0 is NULL, so the code
\* memory starts at address 1.
RECURSIVE Layout(_)
Layout(n) == IF n = 0 THEN <<>> ELSE Layout(n - 1) \o Functions[n]
Code == Layout(Len(Functions))

\* Function::bytecode_address_for(offset): the functions' first bytecodes
\* and the address offset bytes into one.
Entries == [fn \in DOMAIN Functions |-> Len(Layout(fn - 1)) + 1]
bytecode_address_for(fn, offset) == Entries[fn] + offset

\* Program::static_method_at(index), index from 0.
static_method_at(index) ==
  <<Function.NatVal, Function.NatSend, Function.NatRecv, Function.Mk,
    Function.Rec, Function.NatNum>>[index + 1]

\* Process::statics(): static 0 is lazily initialized, static 1 is a value.
Statics == <<<<"initializer", Function.Init>>, Smi(7)>>

\* Program::dispatch_table(): per call site four words of metadata (the
\* selector at +1), then rows <<lower, upper, _, function>>, the last one the
\* catch-all row.
DispatchTable ==
  <<Smi(0), Smi(Site.foo.selector), Smi(0), Smi(0),
    Smi(Class.A), Smi(Class.C), Smi(0), Fn(Function.Foo),
    Smi(0), Smi(kMaxValue), Smi(0), Fn(Function.Trampoline),
    Smi(0), Smi(Site.bar.selector), Smi(0), Smi(0),
    Smi(Class.Smi), Smi(Class.A), Smi(0), Fn(Function.Bar),
    Smi(Class.B), Smi(Class.C), Smi(0), Fn(Function.Bar),
    Smi(0), Smi(kMaxValue), Smi(0), Fn(Function.Trampoline)>>
dispatch_table_get(i) == DispatchTable[i + 1]

\* Program::vtable(): entry class_id + offset is <<offset, _, function, _>>
\* where the class implements the selector; every other entry is entry 0,
\* the no-such-method entry.
Vtable ==
  [i \in 0..15 |->
     CASE i \in {Class.A + Site.foo.offset, Class.B + Site.foo.offset} ->
            <<Smi(Site.foo.offset), Smi(0), Fn(Function.Foo), Smi(0)>>
       [] i \in {Class.Smi + Site.bar.offset, Class.B + Site.bar.offset} ->
            <<Smi(Site.bar.offset), Smi(0), Fn(Function.Bar), Smi(0)>>
       [] OTHER -> <<Smi(0), Smi(0), Fn(Function.Trampoline), Smi(0)>>]

\* The class hierarchy's methods, as Process::LookupEntry resolves them: the
\* target and the tag (nonzero when the class responds).
LookupEntry(clazz, selector) ==
  CASE selector = Site.foo.selector /\ clazz \in {Class.A, Class.B} ->
         [target |-> Function.Foo, tag |-> 1]
    [] selector = Site.bar.selector /\ clazz \in {Class.Smi, Class.B} ->
         [target |-> Function.Bar, tag |-> 1]
    [] selector = NoSuchMethodSelector ->
         [target |-> Function.NsmImpl, tag |-> 1]
    [] OTHER -> [target |-> Function.Trampoline, tag |-> 0]

(***************************************************************************)
(* The heap and the stacks at process start.                               *)
(***************************************************************************)
\* Heap indices of the objects that exist when the process starts: three
\* receivers and three coroutines.
At == [RecvA |-> 1, RecvB |-> 2, RecvC |-> 3, CoA |-> 4, CoB |-> 5, CoC |-> 6]

kInitialStackSize == 16   \* slots of a new stack
kStackReserve == 8        \* slots Process::stack_limit() keeps free
kStackGrowth == 4         \* slots HandleStackOverflow adds

Instance(klass, immutable, fields) ==
  [kind |-> "Instance", class |-> klass, immutable |-> immutable,
   fields |-> fields]

\* Coroutine i's stack is stack i; its caller is null until the program
\* sets it.
InitialHeap ==
  <<Instance(Class.A, TRUE, <<>>), Instance(Class.B, TRUE, <<>>),
    Instance(Class.C, TRUE, <<>>)>>
  \o [i \in 1..3 |->
        [kind |-> "Coroutine", class |-> Class.Coroutine, immutable |-> FALSE,
         fields |-> <<<<"stack", i>>, Null>>]]

NewStack(slots) ==
  [mem |-> slots \o [i \in 1..(kInitialStackSize - Len(slots)) |-> Null],
   top |-> Len(slots)]

\* The main stack holds the arguments, a null return address and the entry
\* bcp; a new coroutine's stack looks suspended in the CoroutineChange at
\* offset 2 of its body.
InitialStacks(sc) ==
  LET Body(b) == Function[IF b = "none" THEN "BodyYield" ELSE b]
      entry == Addr(bytecode_address_for(Function[sc.main], 0))
  IN  <<NewStack(IF sc.main = "MainCo"
                 THEN <<Obj(At.CoA), Obj(At.CoB), Addr(0), entry>>
                 ELSE <<Addr(0), entry>>),
        NewStack(<<Obj(At.CoB), Obj(At.CoC), Addr(0), Smi(0), Smi(0),
                   Addr(bytecode_address_for(Body(sc.bodyB), 2))>>),
        NewStack(<<Obj(At.CoC), Null, Addr(0), Smi(0), Smi(0),
                   Addr(bytecode_address_for(Body(sc.bodyC), 2))>>)>>

\* The runs: the main function, the bodies of coroutines B and C, and the
\* functions that have a catch block.
Scenarios ==
  [main : {"MainRec", "MainLoop", "MainStatic", "MainDisp", "MainTest",
           "MainIdent"},
   bodyB : {"none"},
   bodyC : {"none"}, catchers : {{}}]
  \cup [main : {"MainAlloc"}, bodyB : {"none"}, bodyC : {"none"},
        catchers : {{}, {"MainAlloc"}}]
  \cup [main : {"MainCo"}, bodyB : {"BodyYield", "BodyThrow"}, bodyC : {"none"},
        catchers : {{}, {"MainCo"}}]
  \cup [main : {"MainCo"}, bodyB : {"BodyDeeper"},
        bodyC : {"BodyYield", "BodyThrow"},
        catchers : SUBSET {"MainCo", "BodyDeeper"}]

\* Addresses the debugger may have set a breakpoint at.
BreakCandidates(sc) ==
  LET main == Function[sc.main]
  IN  CASE sc.main = "MainAlloc" ->
             {bytecode_address_for(main, o) : o \in {10, 15, 17, 37}}
        [] sc.main = "MainStatic" ->
             {bytecode_address_for(main, 0),
              bytecode_address_for(Function.NatSend, 0)}
        [] sc.main = "MainCo" -> {bytecode_address_for(main, o) : o \in {12, 13}}
        [] OTHER -> {}

\* The catch blocks of the program: the bcp range covered, the handler and
\* the number of slots of the frame when the handler starts.
CatchTable(sc) ==
  LET Block(name, from, to, handler, height) ==
        [fn |-> name, start |-> bytecode_address_for(Function[name], from),
         end |-> bytecode_address_for(Function[name], to),
         handler |-> bytecode_address_for(Function[name], handler),
         height |-> height]
  IN  {c \in {Block("MainCo", 0, 12, 13, 1), Block("MainAlloc", 0, 37, 38, 1),
              Block("BodyDeeper", 3, 11, 12, 2)} :
         c.fn \in sc.catchers}

(***************************************************************************)
(* State: the engine's registers and the process state it works on, as a   *)
(* record m = [bcp, sp, stacks, heap, coroutine].                          *)
(***************************************************************************)
M == [bcp |-> bcp, sp |-> sp, stacks |-> stacks, heap |-> heap,
      coroutine |-> coroutine]

\* Process::stack(): the stack of the current coroutine.
process_stack(m) == m.heap[m.coroutine].fields[kStackOffset][2]
Mem(m) == m.stacks[process_stack(m)].mem

\* Bytecode pointer related operations.
ReadOpcode == Code[bcp]
ReadByte(offset) == Code[bcp + offset]
ReadInt32(offset) == ReadInt32At(Code, bcp + offset)
ReadConstant == Code[bcp + ReadInt32(1)]

Goto(m, a) == [m EXCEPT !.bcp = a]
Advance(m, delta) == [m EXCEPT !.bcp = m.bcp + delta]
ComputeReturnAddress(m, offset) == m.bcp + offset

\* Stack pointer related operations.
Top(m) == Mem(m)[m.sp]
SetTop(m, value) == [m EXCEPT !.stacks[process_stack(m)].mem[m.sp] = value]
Local(m, n) == Mem(m)[m.sp - n]
SetLocal(m, n, value) ==
  [m EXCEPT !.stacks[process_stack(m)].mem[m.sp - n] = value]
Push(m, value) ==
  [m EXCEPT !.sp = m.sp + 1, !.stacks[process_stack(m)].mem[m.sp + 1] = value]
Drop(m, n) == [m EXCEPT !.sp = m.sp - n]

\* A save that pushes the bcp and leaves the stack's top index as it was.
SaveStateWithoutTop(m) == Push(m, Addr(m.bcp))

SaveState(m) ==
  LET pushed == Push(m, Addr(m.bcp))
  IN  [pushed EXCEPT !.stacks[process_stack(m)].top = pushed.sp]

RestoreState(m) ==
  LET stack == m.stacks[process_stack(m)]
  IN  [m EXCEPT !.sp = stack.top - 1, !.bcp = stack.mem[stack.top][2]]

\* Process::stack_limit() and State::HasStackSpaceFor.
stack_limit(m) == Len(Mem(m)) - kStackReserve

\* A check that lets the stack pointer reach the limit.
HasStackSpaceUpTo(m, size) == m.sp + size <= stack_limit(m)

HasStackSpaceFor(m, size) == m.sp + size < stack_limit(m)

\* A call that pushes its own address.
PushCallAddress(m, offset) == Push(m, Addr(m.bcp))

\* A return that leaves the return address on the stack.
PeekReturnAddress(m) == Goto(m, Top(m)[2])

PushReturnAddress(m, offset) == Push(m, Addr(ComputeReturnAddress(m, offset)))
PopReturnAddress(m) == Goto(Drop(m, 1), Top(m)[2])

\* Engine::Branch.
Branch(m, true_offset, false_offset) ==
  Advance(Drop(m, 1), IF Top(m) = True THEN true_offset ELSE false_offset)

\* The class of a receiver: Class.Smi for a Smi, else the object's class.
ClassOf(m, receiver) ==
  IF IsSmi(receiver) THEN Class.Smi ELSE m.heap[receiver[2]].class

\* Object::IsImmutable.
IsImmutable(m, v) ==
  CASE v[1] \in {"smi", "null", "true", "false"} -> TRUE
    [] v[1] = "obj" -> m.heap[v[2]].immutable
    [] OTHER -> FALSE

(***************************************************************************)
(* Dispatch and surrender.                                                 *)
(***************************************************************************)
Running == interruption = "Running" /\ exit_status = -1
Fetch(op) == Running /\ ReadOpcode = op

Commit(m) ==
  /\ bcp' = m.bcp
  /\ sp' = m.sp
  /\ stacks' = m.stacks
  /\ heap' = m.heap
  /\ coroutine' = m.coroutine
  /\ UNCHANGED ffi_vars

\* DebugInfo::ShouldBreak: a breakpoint is set at this bcp.
DebugInfoShouldBreak(b, s) == b \in debug.breakpoints

\* An engine that never asks the debug info.
ShouldBreakNever(m) == FALSE

\* Engine::ShouldBreak, without the SaveState it does when it answers true.
ShouldBreak(m) == debug.attached /\ DebugInfoShouldBreak(m.bcp, m.sp)

\* Interpreter::Run once Interpret has returned, with the calls in the
\* other order for comparison.
RunEpilogueStoringFirst(made) == made \o <<"StoreErrno", "ReleaseLookupCache">>
RunEpilogue(made) == made \o <<"ReleaseLookupCache", "StoreErrno">>

\* return kind; from Engine::Interpret, and the rest of Interpreter::Run.
Surrender(m, kind) ==
  /\ Commit(m)
  /\ interruption' = kind
  /\ process_calls' = RunEpilogue(process_calls)
  /\ UNCHANGED debug

\* DISPATCH(): break here, or go on with the opcode at bcp.
DISPATCH(m) ==
  IF ShouldBreak(m)
  THEN /\ Commit(SaveState(m))
       /\ interruption' = "BreakPoint"
       /\ process_calls' = RunEpilogue(process_calls)
       /\ debug' = [debug EXCEPT !.is_at_breakpoint = TRUE]
  ELSE /\ Commit(m)
       /\ UNCHANGED <<interruption, debug, process_calls>>

\* History: what the opcode executed last saw and did.
NoPoll == [polled |-> FALSE, asked |-> FALSE, granted |-> FALSE, sp |-> 0,
           size |-> 0, limit |-> 0]
NoFrame == [slot |-> 0, addr |-> 0, site |-> 0, op |-> "none"]
NoCatch == [catch_bcp |-> 0, stack_delta |-> 0, depth |-> 0]
NoPark == [valid |-> FALSE, bcp |-> 0, sp |-> 0, mem |-> <<>>]
Seen(outcome, poll, frame, arg) ==
  [op |-> ReadOpcode, bcp |-> bcp, sp |-> sp, stack |-> process_stack(M),
   mem |-> Mem(M), coroutine |-> coroutine, heap |-> heap, stacks |-> stacks,
   outcome |-> outcome,
   poll |-> poll, frame |-> frame, arg |-> arg, found |-> NoCatch,
   resumed |-> NoPark]

Simple(m) ==
  /\ DISPATCH(m)
  /\ last' = Seen("ok", NoPoll, NoFrame, Null)
  /\ UNCHANGED <<yield_target, session, gc_count, exit_status, scenario, retry, frames, parked>>

(***************************************************************************)
(* Loads, stores and Pop.                                                  *)
(***************************************************************************)
LoadLocal0 ==
  /\ Fetch("LoadLocal0")
  /\ Simple(Advance(Push(M, Local(M, 0)), Length("LoadLocal0")))
LoadLocal1 ==
  /\ Fetch("LoadLocal1")
  /\ Simple(Advance(Push(M, Local(M, 1)), Length("LoadLocal1")))
LoadLocal2 ==
  /\ Fetch("LoadLocal2")
  /\ Simple(Advance(Push(M, Local(M, 2)), Length("LoadLocal2")))
LoadLocal ==
  /\ Fetch("LoadLocal")
  /\ Simple(Advance(Push(M, Local(M, ReadByte(1))), Length("LoadLocal")))

LoadField ==
  /\ Fetch("LoadField")
  /\ LET target == Top(M)[2]
     IN  Simple(Advance(Push(Drop(M, 1), heap[target].fields[ReadByte(1) + 1]),
                        Length("LoadField")))

StoreField ==
  /\ Fetch("StoreField")
  /\ LET value == Top(M)
         target == Local(M, 1)[2]
         stored == [Drop(M, 2) EXCEPT !.heap[target].fields[ReadByte(1) + 1] = value]
     IN  Simple(Advance(Push(stored, value), Length("StoreField")))

LoadLiteralNull ==
  /\ Fetch("LoadLiteralNull")
  /\ Simple(Advance(Push(M, Null), Length("LoadLiteralNull")))
LoadLiteralTrue ==
  /\ Fetch("LoadLiteralTrue")
  /\ Simple(Advance(Push(M, True), Length("LoadLiteralTrue")))
LoadLiteralFalse ==
  /\ Fetch("LoadLiteralFalse")
  /\ Simple(Advance(Push(M, False), Length("LoadLiteralFalse")))
LoadLiteral0 ==
  /\ Fetch("LoadLiteral0")
  /\ Simple(Advance(Push(M, Smi(0)), Length("LoadLiteral0")))
LoadLiteral1 ==
  /\ Fetch("LoadLiteral1")
  /\ Simple(Advance(Push(M, Smi(1)), Length("LoadLiteral1")))

Pop ==
  /\ Fetch("Pop")
  /\ Simple(Advance(Drop(M, 1), Length("Pop")))

(***************************************************************************)
(* Stack overflow polling.                                                 *)
(***************************************************************************)
\* What the process may answer when asked for space: it grows a stack at
\* most MaxGrow times.
GrantChoices(m) ==
  IF Len(Mem(m)) < kInitialStackSize + MaxGrow * kStackGrowth
  THEN {TRUE, FALSE}
  ELSE {FALSE}

\* Process::HandleStackOverflow when it grows the stack.
HandleStackOverflow(m, size) ==
  [m EXCEPT !.stacks[process_stack(m)].mem = @ \o [i \in 1..kStackGrowth |-> Null]]

\* Engine::StackOverflowCheck; grant is the process's answer when asked.
StackOverflowCheck(m, size, grant) ==
  IF HasStackSpaceFor(m, size)
  THEN [ok |-> TRUE, asked |-> FALSE, m |-> m]
  ELSE IF grant
       THEN [ok |-> TRUE, asked |-> TRUE,
             m |-> RestoreState(HandleStackOverflow(SaveState(m), size))]
       ELSE [ok |-> FALSE, asked |-> TRUE, m |-> SaveState(m)]

PollOf(m, size, r) ==
  [polled |-> TRUE, asked |-> r.asked, granted |-> r.asked /\ r.ok, sp |-> m.sp,
   size |-> size, limit |-> stack_limit(m)]

\* History: the call made at bcp, whose return address is on top of m.
CallFrame(m) ==
  [slot |-> m.sp, addr |-> Top(m)[2], site |-> bcp, op |-> ReadOpcode]

\* A call: push the return address, go to the target's first bytecode, poll,
\* then dispatch or surrender.
Call(target, length) ==
  \E m \in {Goto(PushReturnAddress(M, length), bytecode_address_for(target, 0))} :
    \E grant \in GrantChoices(m) :
      LET r == StackOverflowCheck(m, 0, grant)
      IN  /\ IF r.ok THEN DISPATCH(r.m) ELSE Surrender(r.m, "Interrupt")
          /\ last' = Seen(IF r.ok THEN "call" ELSE "interrupt", PollOf(m, 0, r),
                          CallFrame(m), Null)
          /\ frames' = [frames EXCEPT ![process_stack(m)] = Append(@, CallFrame(m))]
          /\ UNCHANGED <<yield_target, session, gc_count, exit_status, scenario,
                         retry, parked>>

\* The outcomes of a poll for size slots on the current machine.
Polls(size) ==
  {StackOverflowCheck(M, size, grant) : grant \in GrantChoices(M)}

\* The tail of a polling opcode that is no call: r is the poll's outcome and
\* rest the machine the rest of the handler leaves when the poll lets the
\* engine go on.
AfterPoll(size, r, rest) ==
  /\ IF r.ok THEN DISPATCH(rest) ELSE Surrender(r.m, "Interrupt")
  /\ last' = Seen(IF r.ok THEN "ok" ELSE "interrupt", PollOf(M, size, r),
                  NoFrame, Null)
  /\ UNCHANGED <<yield_target, session, gc_count, exit_status, scenario,
                 retry, frames, parked>>

(***************************************************************************)
(* Method dispatch.                                                        *)
(***************************************************************************)
\* A scan that takes the first row whatever its range.
ScanFirstRow(index, offset, class_id) == offset

\* A scan that looks at the upper bounds only.
ScanByUpperBound(index, offset, class_id) ==
  CHOOSE o \in {offset + 4 * k : k \in 0..2} :
    /\ class_id < DispatchTable[index + o + 2][2]
    /\ \A k \in 0..2 :
         offset + 4 * k < o => class_id >= DispatchTable[index + offset + 4 * k + 2][2]

\* The row of the dispatch table segment at index that matches class_id.
RECURSIVE ScanRows(_, _, _)
ScanRows(index, offset, class_id) ==
  IF class_id < dispatch_table_get(index + offset)[2]
  THEN ScanRows(index, offset + 4, class_id)
  ELSE IF class_id >= dispatch_table_get(index + offset + 1)[2]
       THEN ScanRows(index, offset + 4, class_id)
       ELSE offset

\* What each flavour of invoke finds on machine m: the arity it reads and
\* the function it calls.
InvokeMethodLookup(m, selector) ==
  LET arity == ArityField(selector)
      receiver == Local(m, arity)
  IN  [arity |-> arity,
       target |-> LookupEntry(ClassOf(m, receiver), selector).target]

InvokeMethodFastLookup(m, index) ==
  LET arity == ArityField(dispatch_table_get(index + 1)[2])
      class_id == ClassOf(m, Local(m, arity))
      offset == ScanRows(index, 4, class_id)
  IN  [arity |-> arity, target |-> dispatch_table_get(index + offset + 3)[2]]

InvokeMethodVtableLookup(m, selector) ==
  LET arity == ArityField(selector)
      offset == IdField(selector)
      class_id == ClassOf(m, Local(m, arity))
      entry == Vtable[class_id + offset]
      found == IF entry[1][2] # offset THEN Vtable[0] ELSE entry
  IN  [arity |-> arity, target |-> found[3][2]]

InvokeMethod ==
  /\ Fetch("InvokeMethod")
  /\ Call(InvokeMethodLookup(M, ReadInt32(1)).target, Length("InvokeMethod"))
InvokeMethodFast ==
  /\ Fetch("InvokeMethodFast")
  /\ Call(InvokeMethodFastLookup(M, ReadInt32(1)).target,
          Length("InvokeMethodFast"))
InvokeMethodVtable ==
  /\ Fetch("InvokeMethodVtable")
  /\ Call(InvokeMethodVtableLookup(M, ReadInt32(1)).target,
          Length("InvokeMethodVtable"))

\* INVOKE_BUILTIN(kind): DISPATCH_TO the plain invoke of the same flavour.
InvokeBuiltin ==
  /\ Running /\ ReadOpcode \in InvokeBuiltinOps
  /\ Call(InvokeMethodLookup(M, ReadInt32(1)).target, Length("InvokeMethod"))
InvokeBuiltinFast ==
  /\ Running /\ ReadOpcode \in InvokeBuiltinFastOps
  /\ Call(InvokeMethodFastLookup(M, ReadInt32(1)).target,
          Length("InvokeMethodFast"))
InvokeBuiltinVtable ==
  /\ Running /\ ReadOpcode \in InvokeBuiltinVtableOps
  /\ Call(InvokeMethodVtableLookup(M, ReadInt32(1)).target,
          Length("InvokeMethodVtable"))

\* The test flavours: does the receiver on top respond to the selector?
\* A vtable test that answers true whatever the entry holds comes first.
InvokeTestVtableUncompared ==
  /\ Fetch("InvokeTestVtable")
  /\ Simple(Advance(SetTop(M, True), Length("InvokeTestVtable")))

InvokeTest ==
  /\ Fetch("InvokeTest")
  /\ LET selector == ReadInt32(1)
         receiver == Local(M, 0)
         responds == LookupEntry(ClassOf(M, receiver), selector).tag # 0
     IN  Simple(Advance(SetTop(M, IF responds THEN True ELSE False),
                        Length("InvokeTest")))
InvokeTestFast ==
  /\ Fetch("InvokeTestFast")
  /\ LET index == ReadInt32(1)
         class_id == ClassOf(M, Local(M, 0))
         offset == ScanRows(index, 4, class_id)
         upper == dispatch_table_get(index + offset + 1)
     IN  Simple(Advance(SetTop(M, IF upper # Smi(kMaxValue) THEN True ELSE False),
                        Length("InvokeTestFast")))
InvokeTestVtable ==
  /\ Fetch("InvokeTestVtable")
  /\ LET selector == ReadInt32(1)
         offset == IdField(selector)
         class_id == ClassOf(M, Local(M, 0))
         entry == Vtable[class_id + offset]
     IN  Simple(Advance(SetTop(M, IF entry[1][2] = offset THEN True ELSE False),
                        Length("InvokeTestVtable")))

(***************************************************************************)
(* Static calls, lazy statics and Return.                                  *)
(***************************************************************************)
InvokeStatic ==
  /\ Fetch("InvokeStatic")
  /\ Call(static_method_at(ReadInt32(1)), Length("InvokeStatic"))
InvokeFactory ==
  /\ Fetch("InvokeFactory")
  /\ Call(static_method_at(ReadInt32(1)), Length("InvokeStatic"))
InvokeStaticUnfold ==
  /\ Fetch("InvokeStaticUnfold")
  /\ Call(ReadConstant[2], Length("InvokeStatic"))
InvokeFactoryUnfold ==
  /\ Fetch("InvokeFactoryUnfold")
  /\ Call(ReadConstant[2], Length("InvokeStatic"))

LoadStaticInit ==
  /\ Fetch("LoadStaticInit")
  /\ LET index == ReadInt32(1)
         value == Statics[index + 1]
     IN  IF value[1] = "initializer"
         THEN Call(value[2], Length("LoadStaticInit"))
         ELSE /\ DISPATCH(Advance(Push(M, value), Length("LoadStaticInit")))
              /\ last' = Seen("ok", NoPoll, NoFrame, Null)
              /\ UNCHANGED <<yield_target, session, gc_count, exit_status, scenario, retry, frames, parked>>

\* The return address popped leaves the history of calls of the stack.
PopFrame(m) ==
  LET fs == frames[process_stack(m)]
  IN  IF fs = <<>> THEN fs ELSE SubSeq(fs, 1, Len(fs) - 1)
TopFrame(m) ==
  LET fs == frames[process_stack(m)]
  IN  IF fs = <<>> THEN NoFrame ELSE fs[Len(fs)]

Return ==
  /\ Fetch("Return")
  /\ LET locals == ReadByte(1)
         arguments == ReadByte(2)
         result == Local(M, 0)
         popped == PopReturnAddress(Drop(M, locals))
     IN  DISPATCH(Push(Drop(popped, arguments), result))
  /\ last' = Seen("ok", NoPoll, TopFrame(M), Null)
  /\ frames' = [frames EXCEPT ![process_stack(M)] = PopFrame(M)]
  /\ UNCHANGED <<yield_target, session, gc_count, exit_status, scenario, retry,
                 parked>>

(***************************************************************************)
(* Branches.                                                               *)
(***************************************************************************)
BranchIfTrueLong ==
  /\ Fetch("BranchIfTrueLong")
  /\ Simple(Branch(M, ReadInt32(1), Length("BranchIfTrueLong")))
BranchIfFalseLong ==
  /\ Fetch("BranchIfFalseLong")
  /\ Simple(Branch(M, Length("BranchIfFalseLong"), ReadInt32(1)))

BranchBack ==
  /\ Fetch("BranchBack")
  /\ \E r \in Polls(0) :
       AfterPoll(0, r, Advance(r.m, -ReadByte(1)))
BranchBackIfTrue ==
  /\ Fetch("BranchBackIfTrue")
  /\ \E r \in Polls(0) :
       AfterPoll(0, r, Branch(r.m, -ReadByte(1), Length("BranchBackIfTrue")))
BranchBackIfFalse ==
  /\ Fetch("BranchBackIfFalse")
  /\ \E r \in Polls(0) :
       AfterPoll(0, r, Branch(r.m, Length("BranchBackIfTrue"), -ReadByte(1)))
BranchBackLong ==
  /\ Fetch("BranchBackLong")
  /\ \E r \in Polls(0) :
       AfterPoll(0, r, Advance(r.m, -ReadInt32(1)))
BranchBackIfTrueLong ==
  /\ Fetch("BranchBackIfTrueLong")
  /\ \E r \in Polls(0) :
       AfterPoll(0, r, Branch(r.m, -ReadInt32(1), Length("BranchBackIfTrueLong")))
BranchBackIfFalseLong ==
  /\ Fetch("BranchBackIfFalseLong")
  /\ \E r \in Polls(0) :
       AfterPoll(0, r, Branch(r.m, Length("BranchBackIfFalseLong"), -ReadInt32(1)))
\* A PopAndBranchBackLong that has dropped its slots when it surrenders.
PopAndBranchBackLongDroppingFirst ==
  /\ Fetch("PopAndBranchBackLong")
  /\ \E r \in Polls(0) :
       AfterPoll(0,
                 [r EXCEPT !.m = IF r.ok THEN r.m
                                 ELSE SaveState(Drop(M, ReadByte(1)))],
                 Advance(Drop(r.m, ReadByte(1)), -ReadInt32(2)))

PopAndBranchBackLong ==
  /\ Fetch("PopAndBranchBackLong")
  /\ \E r \in Polls(0) :
       AfterPoll(0, r, Advance(Drop(r.m, ReadByte(1)), -ReadInt32(2)))

StackOverflowCheckOp ==
  /\ Fetch("StackOverflowCheck")
  /\ \E r \in Polls(ReadInt32(1)) :
       AfterPoll(ReadInt32(1), r, Advance(r.m, Length("StackOverflowCheck")))

(***************************************************************************)
(* Garbage collection and the GC retry protocol.                           *)
(***************************************************************************)
\* The objects reachable from set through fields and through the slots at
\* or below the top of a coroutine's stack.
RECURSIVE Reachable(_, _)
Reachable(m, set) ==
  LET Refs(values) == {v[2] : v \in {w \in values : w[1] = "obj"}}
      Slots(stack) == {stack.mem[i] : i \in 1..stack.top}
      ObjectRefs(i) ==
        LET o == m.heap[i]
        IN  Refs({o.fields[k] : k \in DOMAIN o.fields})
            \cup (IF o.kind = "Coroutine" /\ o.fields[kStackOffset][1] = "stack"
                  THEN Refs(Slots(m.stacks[o.fields[kStackOffset][2]]))
                  ELSE {})
      next == set \cup UNION {ObjectRefs(i) : i \in set}
  IN  IF next = set THEN set ELSE Reachable(m, next)

\* Process::CollectGarbage: objects that neither the current coroutine nor
\* an object the program holds reaches are freed; the others keep their
\* identity.
ProcessCollectGarbage(m) ==
  LET live == Reachable(m, {m.coroutine, At.RecvA, At.RecvB, At.RecvC})
  IN  [m EXCEPT !.heap =
         [i \in DOMAIN m.heap |->
            IF i \in live THEN m.heap[i]
            ELSE [kind |-> "Free", class |-> 0, immutable |-> FALSE,
                  fields |-> <<>>]]]

\* A collection that leaves the bcp it pushed on the stack.
CollectGarbageUnrestored(m) == ProcessCollectGarbage(SaveState(m))

\* A collection that does not save the engine's position first.
CollectGarbageUnsaved(m) == ProcessCollectGarbage(m)

\* Engine::CollectGarbage.
CollectGarbage(m) == RestoreState(ProcessCollectGarbage(SaveState(m)))

NoRetry == [pending |-> FALSE, bcp |-> 0, sp |-> 0, mem |-> <<>>, sentinels |-> 0]
RetrySeen ==
  IF retry.pending
  THEN [retry EXCEPT !.sentinels = @ + 1]
  ELSE [pending |-> TRUE, bcp |-> bcp, sp |-> sp, mem |-> SubSeq(Mem(M), 1, sp),
        sentinels |-> retry.sentinels + 1]
RetryDone == [retry EXCEPT !.pending = FALSE]

\* Whether an allocator or a native may still answer retry_after_gc.
MayFail == gc_count < MaxGC
FailChoices == IF MayFail THEN {TRUE, FALSE} ELSE {FALSE}

\* GC_AND_RETRY_ON_ALLOCATION_FAILURE when var is retry_after_gc.
GcAndRetry ==
  /\ DISPATCH(CollectGarbage(M))
  /\ gc_count' = gc_count + 1
  /\ retry' = RetrySeen
  /\ last' = Seen("retry", NoPoll, NoFrame, retry_after_gc)
  /\ UNCHANGED <<yield_target, session, exit_status, scenario, frames, parked>>

\* The rest of an allocating handler, once the allocation has succeeded.
Allocated(m) ==
  /\ DISPATCH(m)
  /\ retry' = RetryDone
  /\ last' = Seen("ok", NoPoll, NoFrame, Obj(Len(heap) + 1))
  /\ UNCHANGED <<yield_target, session, gc_count, exit_status, scenario, frames, parked>>

\* An instance whose fields are filled in the order the operands are popped.
FillInstanceInPopOrder(m, klass, immutable) ==
  LET fields == NumberOfInstanceFields(klass)
      values == [k \in 1..fields |-> Local(m, k - 1)]
      made == [Drop(m, fields) EXCEPT !.heap = Append(@, Instance(klass, immutable, values))]
  IN  Push(made, Obj(Len(m.heap) + 1))

\* Process::NewInstance and the stores of the operands into the fields: the
\* last operand pushed goes to the last field.
FillInstance(m, klass, immutable) ==
  LET fields == NumberOfInstanceFields(klass)
      values == [k \in 1..fields |-> Local(m, fields - k)]
      made == [Drop(m, fields) EXCEPT !.heap = Append(@, Instance(klass, immutable, values))]
  IN  Push(made, Obj(Len(m.heap) + 1))

\* A scan that takes every operand for immutable.
OperandsTakenImmutable(m, fields) == TRUE

\* The scan of the operands AllocateImmutable does before allocating.
AllOperandsImmutable(m, fields) ==
  \A i \in 0..(fields - 1) : IsImmutable(m, Local(m, i))

Allocate ==
  /\ Fetch("Allocate")
  /\ \E fail \in FailChoices :
       IF fail THEN GcAndRetry
       ELSE Allocated(Advance(FillInstance(M, ReadInt32(1), FALSE), Length("Allocate")))

AllocateUnfold ==
  /\ Fetch("AllocateUnfold")
  /\ \E fail \in FailChoices :
       IF fail THEN GcAndRetry
       ELSE Allocated(Advance(FillInstance(M, ReadConstant[2], FALSE), Length("Allocate")))

AllocateImmutable ==
  /\ Fetch("AllocateImmutable")
  /\ \E fail \in FailChoices :
       LET klass == ReadInt32(1)
           immutable == AllOperandsImmutable(M, NumberOfInstanceFields(klass))
       IN  IF fail THEN GcAndRetry
           ELSE Allocated(Advance(FillInstance(M, klass, immutable),
                                  Length("AllocateImmutable")))

AllocateImmutableUnfold ==
  /\ Fetch("AllocateImmutableUnfold")
  /\ \E fail \in FailChoices :
       LET klass == ReadConstant[2]
           immutable == AllOperandsImmutable(M, NumberOfInstanceFields(klass))
       IN  IF fail THEN GcAndRetry
           ELSE Allocated(Advance(FillInstance(M, klass, immutable),
                                  Length("AllocateImmutableUnfold")))

AllocateBoxed ==
  /\ Fetch("AllocateBoxed")
  /\ \E fail \in FailChoices :
       IF fail THEN GcAndRetry
       ELSE LET value == Local(M, 0)
                made == [M EXCEPT !.heap = Append(@,
                          [kind |-> "Boxed", class |-> 0, immutable |-> FALSE,
                           fields |-> <<value>>])]
            IN  Allocated(Advance(SetTop(made, Obj(Len(heap) + 1)),
                                  Length("AllocateBoxed")))

(***************************************************************************)
(* Natives.                                                                *)
(***************************************************************************)
\* kNativeTable[native](process, arguments): what the native may answer.
NativeResults(native) ==
  (CASE native = 0 -> {True, False, Smi(1), Obj(At.RecvA)}
     [] native = 1 -> {Null, <<"port", 1>>}
     [] native = 2 -> {Smi(3), Obj(At.RecvA), Obj(At.RecvB), Obj(At.RecvC)}
     [] OTHER -> {<<"double", i>> : i \in DOMAIN Numbers.double}
                 \cup {<<"large", i>> : i \in DOMAIN Numbers.large}
                 \cup {Smi(1)})
  \cup {index_out_of_bounds}
  \cup (IF MayFail THEN {retry_after_gc} ELSE {})

InvokeNative ==
  /\ Fetch("InvokeNative")
  /\ \E result \in NativeResults(ReadByte(2)) :
       LET arity == ReadByte(1)
       IN  IF result = retry_after_gc THEN GcAndRetry
           ELSE IF IsFailure(result)
           THEN /\ DISPATCH(Advance(Push(M, ObjectFromFailure(result)),
                                    Length("InvokeNative")))
                /\ last' = Seen("failure", NoPoll, NoFrame, result)
                /\ retry' = RetryDone
                /\ UNCHANGED <<yield_target, session, gc_count, exit_status,
                               scenario, frames, parked>>
           ELSE /\ DISPATCH(Push(Drop(PopReturnAddress(M), arity), result))
                /\ last' = Seen("ok", NoPoll, TopFrame(M), result)
                /\ retry' = RetryDone
                /\ frames' = [frames EXCEPT ![process_stack(M)] = PopFrame(M)]
                /\ UNCHANGED <<yield_target, session, gc_count, exit_status,
                               scenario, parked>>

\* An InvokeNativeYield that leaves the answer of the native on the stack.
InvokeNativeYieldLeavingResult ==
  /\ Fetch("InvokeNativeYield")
  /\ \E result \in NativeResults(ReadByte(2)) :
       LET arity == ReadByte(1)
       IN  IF result = retry_after_gc THEN GcAndRetry
           ELSE IF IsFailure(result)
           THEN /\ DISPATCH(Advance(Push(M, ObjectFromFailure(result)),
                                    Length("InvokeNativeYield")))
                /\ last' = Seen("failure", NoPoll, NoFrame, result)
                /\ retry' = RetryDone
                /\ UNCHANGED <<yield_target, session, gc_count, exit_status,
                               scenario, frames, parked>>
           ELSE LET returned == Push(Drop(PopReturnAddress(M), arity), result)
                IN  /\ IF result # Null
                       THEN /\ Surrender(SaveState(returned), "TargetYield")
                            /\ yield_target' = result
                       ELSE /\ DISPATCH(returned)
                            /\ UNCHANGED yield_target
                    /\ last' = Seen("ok", NoPoll, TopFrame(M), result)
                    /\ retry' = RetryDone
                    /\ frames' = [frames EXCEPT ![process_stack(M)] = PopFrame(M)]
                    /\ UNCHANGED <<session, gc_count, exit_status, scenario, parked>>

InvokeNativeYield ==
  /\ Fetch("InvokeNativeYield")
  /\ \E result \in NativeResults(ReadByte(2)) :
       LET arity == ReadByte(1)
       IN  IF result = retry_after_gc THEN GcAndRetry
           ELSE IF IsFailure(result)
           THEN /\ DISPATCH(Advance(Push(M, ObjectFromFailure(result)),
                                    Length("InvokeNativeYield")))
                /\ last' = Seen("failure", NoPoll, NoFrame, result)
                /\ retry' = RetryDone
                /\ UNCHANGED <<yield_target, session, gc_count, exit_status,
                               scenario, frames, parked>>
           ELSE LET returned == Push(Drop(PopReturnAddress(M), arity), Null)
                IN  /\ IF result # Null
                       THEN /\ Surrender(SaveState(returned), "TargetYield")
                            /\ yield_target' = result
                       ELSE /\ DISPATCH(returned)
                            /\ UNCHANGED yield_target
                    /\ last' = Seen("ok", NoPoll, TopFrame(M), result)
                    /\ retry' = RetryDone
                    /\ frames' = [frames EXCEPT ![process_stack(M)] = PopFrame(M)]
                    /\ UNCHANGED <<session, gc_count, exit_status, scenario, parked>>

(***************************************************************************)
(* Exceptions.                                                             *)
(***************************************************************************)
SetMax(S) == CHOOSE x \in S : \A y \in S : y <= x

\* StackWalker::ComputeCatchBlock on the process's current stack, whose top
\* slot is the saved bcp: the innermost frame whose pc a catch block covers.
\* stack_delta counts the slots above the handler's frame, the saved bcp
\* included; catch_bcp is 0 (NULL) when no frame catches.
CatchBlockIn(stack, table) ==
  LET IsFrame(i) == stack.mem[i][1] = "bcp"
      hits == {h \in (1..stack.top) \X table :
                 /\ IsFrame(h[1])
                 /\ h[2].start <= stack.mem[h[1]][2]
                 /\ stack.mem[h[1]][2] <= h[2].end}
  IN  IF hits = {}
      THEN [catch_bcp |-> 0, stack_delta |-> 0]
      ELSE LET h == CHOOSE h \in hits : \A g \in hits : g[1] <= h[1]
               base == SetMax({j \in 1..(h[1] - 1) : IsFrame(j)})
           IN  [catch_bcp |-> h[2].handler,
                stack_delta |-> stack.top - (base + h[2].height)]
ComputeCatchBlock(m) ==
  CatchBlockIn(m.stacks[process_stack(m)], CatchTable(scenario))

\* Coroutine::has_caller, Coroutine::caller, Process::UpdateCoroutine.
has_caller(m, co) == m.heap[co].fields[kCallerOffset] # Null
caller(m, co) == m.heap[co].fields[kCallerOffset][2]
UpdateCoroutine(m, co) == [m EXCEPT !.coroutine = co]

\* HandleThrow: the loop over the caller chain. The answer carries the
\* process state it leaves, the catch bcp (0 when NULL), the stack delta,
\* whether the process exited and the calls of Session::UncaughtException.
\* An unwinding that forgets to mark the coroutine it leaves.
AbandonUnmarked(m) == UpdateCoroutine(m, caller(m, m.coroutine))

\* An unwinding that reports to any attached session.
UncaughtAnySession(m) ==
  IF session.attached
  THEN [m |-> m, catch_bcp |-> 0, stack_delta |-> 0, exit |-> FALSE, uncaught |-> 1]
  ELSE [m |-> m, catch_bcp |-> 0, stack_delta |-> 0, exit |-> TRUE, uncaught |-> 0]

\* An unwinding that marks the coroutine it leaves done but leaves it its
\* stack.
AbandonKeepingStack(m) ==
  LET current == m.coroutine
      switched == UpdateCoroutine(m, caller(m, current))
  IN  [switched EXCEPT !.heap[current].fields[kCallerOffset] = Obj(current)]

\* One round of the loop that finds no catch block and has a caller: the
\* process moves to the caller; the coroutine left loses its stack and
\* becomes its own caller.
Abandon(m) ==
  LET current == m.coroutine
      switched == UpdateCoroutine(m, caller(m, current))
  IN  [switched EXCEPT !.heap[current].fields[kStackOffset] = Null,
                       !.heap[current].fields[kCallerOffset] = Obj(current)]

\* The answer when no coroutine of the chain catches.
Uncaught(m) ==
  IF session.attached /\ session.is_debugging
  THEN [m |-> m, catch_bcp |-> 0, stack_delta |-> 0, exit |-> FALSE, uncaught |-> 1]
  ELSE [m |-> m, catch_bcp |-> 0, stack_delta |-> 0, exit |-> TRUE, uncaught |-> 0]

Caught(m, found) ==
  [m |-> m, catch_bcp |-> found.catch_bcp, stack_delta |-> found.stack_delta,
   exit |-> FALSE, uncaught |-> 0]

RECURSIVE HandleThrow(_)
HandleThrow(m) ==
  IF ComputeCatchBlock(m).catch_bcp # 0
  THEN Caught(m, ComputeCatchBlock(m))
  ELSE IF ~has_caller(m, m.coroutine)
       THEN Uncaught(m)
       ELSE HandleThrow(Abandon(m))

\* The calls a catch block's frame leaves behind it are forgotten.
Unwound(fs, depth) == SelectSeq(fs, LAMBDA f : f.slot <= depth)

\* A Throw that forgets the bcp RestoreState has popped already.
ThrowCaughtDropsDelta(m, catch_bcp, stack_delta, exception) ==
  SetTop(Drop(Goto(RestoreState(m), catch_bcp), stack_delta), exception)

\* The rest of Throw once HandleThrow has found the catch block.
ThrowCaught(m, catch_bcp, stack_delta, exception) ==
  SetTop(Drop(Goto(RestoreState(m), catch_bcp), stack_delta - 1), exception)

Throw ==
  /\ Fetch("Throw")
  /\ \E h \in {HandleThrow(SaveState(M))} :
     LET exception == Local(M, 0)
         catcher == process_stack(h.m)
         found == [catch_bcp |-> h.catch_bcp, stack_delta |-> h.stack_delta,
                   depth |-> h.m.stacks[catcher].top]
     IN  IF h.exit
         THEN /\ Commit(h.m)
              /\ exit_status' = 1
              /\ last' = Seen("exit", NoPoll, NoFrame, exception)
              /\ UNCHANGED <<interruption, debug, process_calls, session, frames,
                             parked>>
         ELSE IF h.catch_bcp = 0
         THEN /\ Surrender(h.m, "UncaughtException")
              /\ session' = [session EXCEPT !.uncaught = @ + h.uncaught]
              /\ last' = Seen("uncaught", NoPoll, NoFrame, exception)
              /\ UNCHANGED <<exit_status, frames, parked>>
         ELSE \E caught \in {ThrowCaught(h.m, h.catch_bcp, h.stack_delta, exception)} :
                /\ DISPATCH(caught)
                /\ last' = [Seen("caught", NoPoll, NoFrame, exception)
                              EXCEPT !.found = found]
                /\ frames' = [frames EXCEPT ![catcher] = Unwound(@, caught.sp)]
                /\ parked' = [parked EXCEPT ![catcher] = NoPark]
                /\ UNCHANGED <<exit_status, session>>
  /\ UNCHANGED <<yield_target, gc_count, scenario, retry>>

(***************************************************************************)
(* Yield and coroutines.                                                   *)
(***************************************************************************)
\* A yield that saves its own address.
ProcessYieldUnadvanced(m) == SaveState(SetTop(m, Null))

\* A switch that leaves its operands on the stack it leaves.
CoroutineLeftWithOperands(m) == SaveState(m)

\* ProcessYield up to its return.
ProcessYieldState(m) == SaveState(Advance(SetTop(m, Null), Length("ProcessYield")))

ProcessYield ==
  /\ Fetch("ProcessYield")
  /\ LET value == Local(M, 0)
         terminated == value = True
     IN  Surrender(ProcessYieldState(M), IF terminated THEN "Terminate" ELSE "Yield")
  /\ last' = Seen("ok", NoPoll, NoFrame, Local(M, 0))
  /\ UNCHANGED <<yield_target, session, gc_count, exit_status, scenario, retry,
                 frames, parked>>

\* CoroutineChange up to the switch: the operands nulled, the state saved.
CoroutineLeft(m) == SaveState(SetLocal(SetLocal(m, 0, Null), 1, Null))

\* A switch that resumes the target at the bcp it saved.
CoroutineEnteredUnadvanced(m, target, argument) ==
  SetTop(Drop(RestoreState(UpdateCoroutine(m, target)), 1), argument)

\* CoroutineChange from the switch on.
CoroutineEntered(m, target, argument) ==
  LET switched == RestoreState(UpdateCoroutine(m, target))
      resumed == Drop(Advance(switched, Length("CoroutineChange")), 1)
  IN  SetTop(resumed, argument)

CoroutineChange ==
  /\ Fetch("CoroutineChange")
  /\ LET argument == Local(M, 0)
         target == Local(M, 1)[2]
         entered == heap[target].fields[kStackOffset][2]
     IN  /\ DISPATCH(CoroutineEntered(CoroutineLeft(M), target, argument))
         /\ last' = [Seen("ok", NoPoll, NoFrame, argument)
                       EXCEPT !.resumed = parked[entered]]
         /\ parked' = [parked EXCEPT
                         ![process_stack(M)] =
                           [valid |-> TRUE, bcp |-> bcp, sp |-> sp, mem |-> Mem(M)],
                         ![entered] = NoPark]
  /\ UNCHANGED <<yield_target, session, gc_count, exit_status, scenario, retry,
                 frames>>

\* Identity. A comparison of the operands as pointers comes first.
HandleIdenticalPointers(left, right) == IF left = right THEN True ELSE False

HandleIdentical(left, right) ==
  LET IsDouble(v) == v[1] = "double"
      IsLargeInteger(v) == v[1] = "large"
      isnan(d) == d.nan
      Equal(l, r) ==
        /\ ~l.nan /\ ~r.nan
        /\ l.magnitude = r.magnitude
        /\ l.magnitude = 0 \/ l.negative = r.negative
      identical ==
        IF IsDouble(left) /\ IsDouble(right)
        THEN IF isnan(Numbers.double[left[2]]) /\ isnan(Numbers.double[right[2]])
             THEN TRUE
             ELSE Equal(Numbers.double[left[2]], Numbers.double[right[2]])
        ELSE IF IsLargeInteger(left) /\ IsLargeInteger(right)
        THEN Numbers.large[left[2]] = Numbers.large[right[2]]
        ELSE left = right
  IN  IF identical THEN True ELSE False

Identical ==
  /\ Fetch("Identical")
  /\ Simple(Advance(SetTop(Drop(M, 1), HandleIdentical(Local(M, 1), Local(M, 0))),
                    Length("Identical")))
IdenticalNonNumeric ==
  /\ Fetch("IdenticalNonNumeric")
  /\ Simple(Advance(SetTop(Drop(M, 1),
                           IF Local(M, 0) = Local(M, 1) THEN True ELSE False),
                    Length("IdenticalNonNumeric")))

(***************************************************************************)
(* The no-such-method trampoline.                                          *)
(***************************************************************************)
EnterNoSuchMethod ==
  /\ Fetch("EnterNoSuchMethod")
  /\ LET return_address == Local(M, 0)[2]
         opcode == Code[return_address - 5]
         selector ==
           IF IsInvokeFast(opcode)
           THEN dispatch_table_get(ReadInt32At(Code, return_address - 4) + 1)[2]
           ELSE ReadInt32At(Code, return_address - 4)
         arity == ArityField(selector)
         selector_smi == Smi(selector)
         receiver == Local(M, arity + 1)
     IN  Simple(Advance(Push(Push(Push(M, selector_smi), receiver), selector_smi),
                        Length("EnterNoSuchMethod")))

ExitNoSuchMethodOfHandler ==
  /\ Fetch("ExitNoSuchMethod")
  /\ LET handled == Top(M)
         selector == Local(M, 1)[2]
         popped == PopReturnAddress(Drop(M, 2))
         arity == ArityField(selector)
     IN  DISPATCH(Push(Drop(popped, arity + 1), handled))
  /\ last' = Seen("ok", NoPoll, TopFrame(M), Null)
  /\ frames' = [frames EXCEPT ![process_stack(M)] = PopFrame(M)]
  /\ UNCHANGED <<yield_target, session, gc_count, exit_status, scenario, retry,
                 parked>>

ExitNoSuchMethod ==
  /\ Fetch("ExitNoSuchMethod")
  /\ LET handled == Top(M)
         selector == Local(M, 1)[2]
         popped == PopReturnAddress(Drop(M, 2))
         result == IF KindField(selector) = SETTER THEN Local(popped, 0) ELSE handled
         arity == ArityField(selector)
     IN  DISPATCH(Push(Drop(popped, arity + 1), result))
  /\ last' = Seen("ok", NoPoll, TopFrame(M), Null)
  /\ frames' = [frames EXCEPT ![process_stack(M)] = PopFrame(M)]
  /\ UNCHANGED <<yield_target, session, gc_count, exit_status, scenario, retry,
                 parked>>

(***************************************************************************)
(* Interpreter::Run up to the first dispatch of Engine::Interpret.         *)
(***************************************************************************)
RunSeen == [op |-> "Run", bcp |-> 0, sp |-> 0, stack |-> 0, mem |-> <<>>,
            coroutine |-> 0, heap |-> <<>>, stacks |-> <<>>, outcome |-> "ok",
            poll |-> NoPoll,
            frame |-> NoFrame, arg |-> Null, found |-> NoCatch,
            resumed |-> NoPark]

\* Interpreter::Interpreter: a new interpreter, ready to run, for a process
\* that the last run has left able to go on.
Interpreter ==
  /\ interruption \in {"Yield", "TargetYield", "Interrupt", "BreakPoint"}
  /\ exit_status = -1
  /\ interruption' = "Ready"
  /\ process_calls' = <<>>
  /\ last' = [RunSeen EXCEPT !.op = "Interpreter"]
  /\ UNCHANGED <<bcp, sp, stacks, heap, coroutine, yield_target, debug, session,
                 gc_count, exit_status, scenario, retry, frames, parked>>
  /\ UNCHANGED ffi_vars

\* Engine::IsAtBreakPoint: the flag, which the call clears.
IsAtBreakPoint == debug.attached /\ debug.is_at_breakpoint

\* Interpreter::Run with Engine::Interpret up to its first dispatch. The
\* history keeps the interruption_ Run started with and whether the first
\* dispatch skipped the breakpoint gate.
Run ==
  /\ interruption = "Ready"
  /\ exit_status = -1
  /\ LET engine == RestoreState(M)
         taken == <<"RestoreErrno", "TakeLookupCache">>
     IN  IF IsAtBreakPoint
         THEN /\ Commit(engine)
              /\ interruption' = "Running"
              /\ process_calls' = taken
              /\ debug' = [debug EXCEPT !.is_at_breakpoint = FALSE]
         ELSE IF ShouldBreak(engine)
         THEN /\ Commit(SaveState(engine))
              /\ interruption' = "BreakPoint"
              /\ process_calls' = RunEpilogue(taken)
              /\ debug' = [debug EXCEPT !.is_at_breakpoint = TRUE]
         ELSE /\ Commit(engine)
              /\ interruption' = "Running"
              /\ process_calls' = taken
              /\ UNCHANGED debug
  /\ last' = [RunSeen EXCEPT !.outcome = interruption,
                             !.arg = IF IsAtBreakPoint THEN True ELSE False]
  /\ UNCHANGED <<yield_target, session, gc_count, exit_status, scenario, retry, frames, parked>>

(***************************************************************************)
(* The foreign function interface (src/vm/ffi.cc): the registry of default *)
(* shared libraries, shared by the threads of the embedder, and the        *)
(* natives over raw memory.                                                *)
(***************************************************************************)
Threads == {1, 2}
MaxEntries == 2      \* DefaultLibraryEntry objects ever allocated
MaxTearDowns == 1    \* calls of ForeignFunctionInterface::TearDown

\* A 64-bit integer is its eight bytes, the low byte first, in two's
\* complement; Int64(n) is the one of a small natural number.
Int64(n) == [i \in 1..8 |-> IF i > 4 THEN 0 ELSE (n \div (256 ^ (i - 1))) % 256]

\* Smi::IsValid on a build of the given word size: the value is the sign
\* extension of its low bits - 1 bits.
SmiIsValid(value, bits) ==
  /\ \A i \in (bits \div 8 + 1)..8 :
       value[i] = IF value[bits \div 8] >= 128 THEN 255 ELSE 0
  /\ value[bits \div 8] < 64 \/ value[bits \div 8] >= 192

\* Process::ToInteger: a Smi where the value fits one, a new LargeInteger
\* otherwise, whose allocation can fail.
ToInteger(value, fails) ==
  IF SmiIsValid(value, kBitsPerWord)
  THEN <<"Smi", value>>
  ELSE IF fails THEN retry_after_gc
  ELSE <<"LargeInteger", value>>

\* The shared libraries of the platform: dlopen succeeds for the libraries
\* installed; dlsym answers the address of a symbol, 0 where the library has
\* none.
Installed == {"liba", "libb"}
Named == {"liba", "nolib"}
Names == {"f", "h"}
Dlsym(library, name) ==
  IF library = "liba" /\ name = "f" THEN 16 ELSE 0

\* PerformForeignLookup: dlopen, dlsym and dlclose; rc is what dlclose
\* answers. The record keeps the calls made besides the result.
PerformForeignLookupUnclosed(library, name, rc) ==
  [library |-> library, opened |-> library \in Installed,
   found |-> Dlsym(library, name), closed |-> 0,
   result |-> Dlsym(library, name)]

PerformForeignLookup(library, name, rc) ==
  IF library \notin Installed
  THEN [library |-> library, opened |-> FALSE, found |-> 0, closed |-> 0,
        result |-> 0]
  ELSE [library |-> library, opened |-> TRUE, found |-> Dlsym(library, name),
        closed |-> 1,
        result |-> IF rc # 0 THEN 0 ELSE Dlsym(library, name)]

\* A thread outside the interface. Inside, pc is the statement it is at,
\* current, library, name, entry and result are the locals of the call, and
\* probes and raced are history: the look-ups performed, and whether another
\* call ran beside a TearDown.
Idle ==
  [pc |-> "idle", current |-> 0, library |-> "", name |-> "", entry |-> 0,
   probes |-> <<>>, result |-> Null, raced |-> FALSE]

\* The threads after thread t has taken a step that leaves it as rec: a
\* TearDown under way has another call beside it.
Stepped(t, rec) ==
  [u \in Threads |->
     IF u = t THEN rec
     ELSE IF threads[u].pc = "tear" /\ rec.pc # "idle"
     THEN [threads[u] EXCEPT !.raced = TRUE]
     ELSE threads[u]]

\* The entries of the list from entry e on, in the order of the next_ links.
RECURSIVE Walk(_)
Walk(e) == IF e = 0 THEN <<>> ELSE <<e>> \o Walk(entries[e].next_)

\* What a read of an entry's fields gives: the fields, or anything once the
\* entry has been deleted.
ReadNext(e) == IF entries[e].deleted > 0 THEN {entries[e].next_, 0} ELSE {entries[e].next_}
ReadLibrary(e) ==
  IF entries[e].freed > 0 THEN {entries[e].library_, "nolib"} ELSE {entries[e].library_}
Read(e) == [entries EXCEPT ![e].stale = @ \/ entries[e].deleted > 0]

\* ~DefaultLibraryEntry and the delete of TearDown: free(library_).
DeleteKeepingName(read, e) == [read EXCEPT ![e].deleted = @ + 1]
Delete(read, e) == [read EXCEPT ![e].deleted = @ + 1, ![e].freed = @ + 1]

\* ForeignFunctionInterface::Setup, called by the embedder while no thread
\* is inside the interface.
Setup ==
  /\ \A t \in Threads : threads[t].pc = "idle"
  /\ ~mutex_.alive
  /\ mutex_' = [alive |-> TRUE, holder |-> 0]
  /\ UNCHANGED <<beside_registry, libraries_, entries, threads, teardowns>>

\* ForeignFunctionInterface::TearDown: it takes no lock. Its steps are the
\* read of libraries_, one turn of the loop, and the delete of the mutex.
TearDown(t) ==
  \/ /\ threads[t].pc = "idle"
     /\ teardowns < MaxTearDowns
     /\ teardowns' = teardowns + 1
     /\ threads' = [threads EXCEPT ![t] =
          [Idle EXCEPT !.pc = "tear", !.current = libraries_,
                       !.raced = \E u \in Threads \ {t} : threads[u].pc # "idle"]]
     /\ UNCHANGED <<beside_registry, libraries_, mutex_, entries>>
  \/ /\ threads[t].pc = "tear"
     /\ threads[t].current # 0
     /\ \E next \in ReadNext(threads[t].current) :
          threads' = [threads EXCEPT ![t].current = next]
     /\ entries' = Delete(Read(threads[t].current), threads[t].current)
     /\ UNCHANGED <<beside_registry, libraries_, mutex_, teardowns>>
  \/ /\ threads[t].pc = "tear"
     /\ threads[t].current = 0
     /\ mutex_' = [mutex_ EXCEPT !.alive = FALSE]
     /\ threads' = [threads EXCEPT ![t] = Idle]
     /\ UNCHANGED <<beside_registry, libraries_, entries, teardowns>>

\* ForeignFunctionInterface::AddDefaultSharedLibrary: the lock, the new
\* entry in front of the list read, and the store of libraries_ with the
\* unlock at the end of the scope.
AddDefaultSharedLibrary(t) ==
  \/ /\ threads[t].pc = "idle"
     /\ mutex_.alive /\ mutex_.holder = 0
     /\ Len(entries) < MaxEntries
     /\ mutex_' = [mutex_ EXCEPT !.holder = t]
     /\ \E library \in {"liba", "libb"} :
          threads' = Stepped(t, [Idle EXCEPT !.pc = "add",
                                             !.library = library])
     /\ UNCHANGED <<beside_registry, libraries_, entries, teardowns>>
  \/ /\ threads[t].pc = "add"
     /\ entries' = Append(entries, [library_ |-> threads[t].library,
                                    next_ |-> libraries_, deleted |-> 0,
                                    freed |-> 0, stale |-> FALSE])
     /\ threads' = [threads EXCEPT ![t].pc = "store",
                                   ![t].entry = Len(entries) + 1]
     /\ UNCHANGED <<beside_registry, libraries_, mutex_, teardowns>>
  \/ /\ threads[t].pc = "store"
     /\ libraries_' = threads[t].entry
     /\ mutex_' = [mutex_ EXCEPT !.holder = 0]
     /\ threads' = [threads EXCEPT ![t] = Idle]
     /\ UNCHANGED <<beside_registry, entries, teardowns>>

\* NATIVE(ForeignLookup): the probe of the named library, whose address
\* ends the call while no address sends it to the default libraries; and
\* the return of the integer or of the failure.
ForeignLookup(t) ==
  \/ /\ threads[t].pc = "idle"
     /\ mutex_.alive
     /\ \E library \in Named, name \in Names, fails \in BOOLEAN :
          \E probe \in {PerformForeignLookup(library, name, rc) : rc \in {0, -1}} :
            threads' = Stepped(t,
              [Idle EXCEPT !.library = library, !.name = name,
                           !.probes = <<probe>>,
                           !.pc = IF probe.result # 0 THEN "return" ELSE "defaults",
                           !.result = IF probe.result # 0
                                      THEN ToInteger(Int64(probe.result), fails)
                                      ELSE Null])
     /\ UNCHANGED <<beside_registry, libraries_, mutex_, entries, teardowns>>
  \/ /\ threads[t].pc = "return"
     /\ threads' = [threads EXCEPT ![t] = Idle]
     /\ UNCHANGED <<beside_registry, libraries_, mutex_, entries, teardowns>>

\* ForeignFunctionInterface::LookupInDefaultLibraries: the lock, then one
\* turn of the loop at a time; leaving unlocks, with the address found or
\* with none, which NATIVE(ForeignLookup) makes the integer or the failure.
LookupInDefaultLibraries(t) ==
  \/ /\ threads[t].pc = "defaults"
     /\ mutex_.holder = 0
     /\ mutex_' = [mutex_ EXCEPT !.holder = t]
     /\ threads' = [threads EXCEPT ![t].pc = "scan",
                                   ![t].current = libraries_]
     /\ UNCHANGED <<beside_registry, libraries_, entries, teardowns>>
  \/ /\ threads[t].pc = "scan"
     /\ threads[t].current = 0
     /\ mutex_' = [mutex_ EXCEPT !.holder = 0]
     /\ threads' = [threads EXCEPT ![t].pc = "return",
                                   ![t].result = index_out_of_bounds]
     /\ UNCHANGED <<beside_registry, libraries_, entries, teardowns>>
  \/ /\ threads[t].pc = "scan"
     /\ threads[t].current # 0
     /\ entries' = Read(threads[t].current)
     /\ \E library \in ReadLibrary(threads[t].current),
           next \in ReadNext(threads[t].current), fails \in BOOLEAN :
          \E probe \in {PerformForeignLookup(library, threads[t].name, rc) :
                           rc \in {0, -1}} :
            IF probe.result # 0
            THEN /\ mutex_' = [mutex_ EXCEPT !.holder = 0]
                 /\ threads' = [threads EXCEPT
                      ![t].pc = "return",
                      ![t].probes = Append(@, probe),
                      ![t].result = ToInteger(Int64(probe.result), fails)]
            ELSE /\ threads' = [threads EXCEPT ![t].current = next,
                                               ![t].probes = Append(@, probe)]
                 /\ UNCHANGED mutex_
     /\ UNCHANGED <<beside_registry, libraries_, teardowns>>

(***************************************************************************)
(* The natives over raw memory: ForeignAllocate, ForeignFree and the typed *)
(* accessors.                                                              *)
(***************************************************************************)
Buffers == {1}       \* the buffers of the program; buffer b lies at 16 * b
MaxSets == 2         \* ForeignSet calls on one buffer

\* The types of DEFINE_FOREIGN_ACCESSORS: sizeof(type) and its signedness.
Types ==
  {[suffix |-> "Int8", size |-> 1, signed |-> TRUE],
   [suffix |-> "Int16", size |-> 2, signed |-> TRUE],
   [suffix |-> "Int32", size |-> 4, signed |-> TRUE],
   [suffix |-> "Int64", size |-> 8, signed |-> TRUE],
   [suffix |-> "Uint8", size |-> 1, signed |-> FALSE],
   [suffix |-> "Uint16", size |-> 2, signed |-> FALSE],
   [suffix |-> "Uint32", size |-> 4, signed |-> FALSE],
   [suffix |-> "Uint64", size |-> 8, signed |-> FALSE]}

\* The 64-bit values the program passes: 0, 1, -1, 128, 255, 32768, 2^31,
\* -2^31 - 1, 2^32 + 5, 2^63 - 1, -2^63 and 0x0123456789ABCDEF.
Words ==
  {<<0, 0, 0, 0, 0, 0, 0, 0>>, <<1, 0, 0, 0, 0, 0, 0, 0>>,
   <<255, 255, 255, 255, 255, 255, 255, 255>>, <<128, 0, 0, 0, 0, 0, 0, 0>>,
   <<255, 0, 0, 0, 0, 0, 0, 0>>, <<0, 128, 0, 0, 0, 0, 0, 0>>,
   <<0, 0, 0, 128, 0, 0, 0, 0>>, <<255, 255, 255, 127, 255, 255, 255, 255>>,
   <<5, 0, 0, 0, 1, 0, 0, 0>>, <<255, 255, 255, 255, 255, 255, 255, 127>>,
   <<0, 0, 0, 0, 0, 0, 0, 128>>, <<239, 205, 171, 137, 103, 69, 35, 1>>}

\* The conversions of C++ between integer types, on the bytes: the low n
\* bytes, extended to 64 bits by the sign or by zeros.
SignExtend(bytes, n) ==
  [i \in 1..8 |-> IF i <= n THEN bytes[i] ELSE IF bytes[n] >= 128 THEN 255 ELSE 0]
ZeroExtend(bytes, n) == [i \in 1..8 |-> IF i <= n THEN bytes[i] ELSE 0]

\* AsForeignWord: the value of a Smi or of a LargeInteger as a machine word.
AsForeignWordUntruncated(object) == object[2]
AsForeignWord(object) == SignExtend(object[2], kBitsPerWord \div 8)

\* The buffer a word points into.
BufferAt(word) == (word[1] + 256 * word[2]) \div 16

NoAnswer ==
  [native |-> "none", type |-> [suffix |-> "", size |-> 0, signed |-> FALSE],
   buffer |-> 0, value |-> Null,
   result |-> Null, fresh |-> FALSE, set |-> <<>>]

\* NATIVE(ForeignAllocate): calloc, which zeroes the buffer or answers NULL.
ForeignAllocate ==
  /\ Len(memory) < Cardinality(Buffers)
  /\ \E size \in {ToInteger(Int64(8), FALSE)}, null \in BOOLEAN :
       /\ memory' = IF null THEN memory
                    ELSE Append(memory,
                           [bytes |-> [i \in 1..AsForeignWord(size)[1] |-> 0],
                            freed |-> FALSE, writes |-> 0, set |-> <<>>])
       /\ answer' = [NoAnswer EXCEPT
            !.native = "ForeignAllocate", !.value = size,
            !.buffer = IF null THEN 0 ELSE Len(memory) + 1,
            !.result = ToInteger(Int64(IF null THEN 0 ELSE 16 * (Len(memory) + 1)),
                                 FALSE)]
  /\ UNCHANGED <<beside_memory, kBitsPerWord>>

\* NATIVE(ForeignFree)
ForeignFree ==
  /\ \E b \in 1..Len(memory) : \E address \in {ToInteger(Int64(16 * b), FALSE)} :
       /\ ~memory[b].freed
       /\ memory' = [memory EXCEPT ![BufferAt(AsForeignWord(address))].freed = TRUE]
       /\ answer' = [NoAnswer EXCEPT !.native = "ForeignFree", !.buffer = b,
                                     !.value = address, !.result = Null]
  /\ UNCHANGED <<beside_memory, kBitsPerWord>>

\* NATIVE(ForeignGet##suffix) with a read that extends by zeros only.
ForeignGetZeroExtended ==
  /\ \E type \in Types, b \in 1..Len(memory), fails \in BOOLEAN :
       \E address \in {ToInteger(Int64(16 * b), FALSE)} :
         /\ ~memory[b].freed
         /\ answer' = [NoAnswer EXCEPT
              !.native = "ForeignGet", !.type = type, !.buffer = b,
              !.result = ToInteger(
                 ZeroExtend(memory[BufferAt(AsForeignWord(address))].bytes,
                            type.size), fails),
              !.fresh = memory[b].writes = 0,
              !.set = memory[b].set]
  /\ UNCHANGED <<beside_memory, kBitsPerWord, memory>>

\* NATIVE(ForeignGet##suffix): *address, of the type, converted to the
\* 64-bit integer that Process::ToInteger takes.
ForeignGet ==
  /\ \E type \in Types, b \in 1..Len(memory), fails \in BOOLEAN :
       \E address \in {ToInteger(Int64(16 * b), FALSE)} :
         /\ ~memory[b].freed
         /\ answer' = [NoAnswer EXCEPT
              !.native = "ForeignGet", !.type = type, !.buffer = b,
              !.result = ToInteger(
                 IF type.signed
                 THEN SignExtend(memory[BufferAt(AsForeignWord(address))].bytes,
                                 type.size)
                 ELSE ZeroExtend(memory[BufferAt(AsForeignWord(address))].bytes,
                                 type.size), fails),
              !.fresh = memory[b].writes = 0,
              !.set = memory[b].set]
  /\ UNCHANGED <<beside_memory, kBitsPerWord, memory>>

\* NATIVE(ForeignSet##suffix): the machine word of the value, converted to
\* the type, stored at the address; the value is the result.
ForeignSet ==
  /\ \E type \in Types, b \in 1..Len(memory), word \in Words :
       \E address \in {ToInteger(Int64(16 * b), FALSE)},
          value \in {ToInteger(word, FALSE)} :
         /\ ~memory[b].freed
         /\ memory[b].writes < MaxSets
         /\ memory' = [memory EXCEPT
              ![BufferAt(AsForeignWord(address))] =
                 [@ EXCEPT !.bytes = [i \in 1..Len(@) |->
                                        IF i <= type.size
                                        THEN AsForeignWord(value)[i] ELSE @[i]],
                           !.writes = @ + 1,
                           !.set = <<type, value>>]]
         /\ answer' = [NoAnswer EXCEPT
              !.native = "ForeignSet", !.type = type, !.buffer = b,
              !.value = value, !.result = value]
  /\ UNCHANGED <<beside_memory, kBitsPerWord>>

InitRegistry ==
  /\ libraries_ = 0
  /\ mutex_ = [alive |-> FALSE, holder |-> 0]
  /\ entries = <<>>
  /\ threads = [t \in Threads |-> Idle]
  /\ teardowns = 0

InitMemory ==
  /\ memory = <<>>
  /\ answer = NoAnswer

(***************************************************************************)
(* The specification.                                                      *)
(***************************************************************************)
DebugChoices(sc) ==
  {[attached |-> FALSE, breakpoints |-> {}, is_at_breakpoint |-> FALSE]}
  \cup {[attached |-> TRUE, breakpoints |-> {a}, is_at_breakpoint |-> FALSE] :
          a \in BreakCandidates(sc)}

SessionChoices ==
  {[attached |-> FALSE, is_debugging |-> FALSE, uncaught |-> 0],
   [attached |-> TRUE, is_debugging |-> FALSE, uncaught |-> 0],
   [attached |-> TRUE, is_debugging |-> TRUE, uncaught |-> 0]}

InitEngine(sc, dbg, ses) ==
  /\ scenario = sc
  /\ stacks = InitialStacks(sc)
  /\ heap = InitialHeap
  /\ coroutine = At.CoA
  /\ bcp = 0
  /\ sp = 0
  /\ interruption = "Ready"
  /\ yield_target = Null
  /\ debug = dbg
  /\ session = ses
  /\ gc_count = 0
  /\ exit_status = -1
  /\ last = [RunSeen EXCEPT !.op = "none"]
  /\ retry = NoRetry
  /\ frames = <<<<>>, <<>>, <<>>>>
  /\ parked = <<NoPark, NoPark, NoPark>>
  /\ process_calls = <<>>

Init ==
  \E sc \in Scenarios : \E dbg \in DebugChoices(sc) : \E ses \in SessionChoices :
    /\ InitEngine(sc, dbg, ses)
    /\ InitRegistry
    /\ InitMemory
    /\ kBitsPerWord = 64

Next ==
  \/ Interpreter
  \/ Run
  \/ LoadLocal0 \/ LoadLocal1 \/ LoadLocal2 \/ LoadLocal
  \/ LoadField \/ StoreField
  \/ LoadLiteralNull \/ LoadLiteralTrue \/ LoadLiteralFalse
  \/ LoadLiteral0 \/ LoadLiteral1
  \/ Pop
  \/ InvokeMethod \/ InvokeMethodFast \/ InvokeMethodVtable
  \/ InvokeBuiltin \/ InvokeBuiltinFast \/ InvokeBuiltinVtable
  \/ InvokeTest \/ InvokeTestFast \/ InvokeTestVtable
  \/ InvokeStatic \/ InvokeFactory \/ InvokeStaticUnfold \/ InvokeFactoryUnfold
  \/ LoadStaticInit
  \/ InvokeNative \/ InvokeNativeYield
  \/ Return
  \/ BranchIfTrueLong \/ BranchIfFalseLong
  \/ BranchBack \/ BranchBackIfTrue \/ BranchBackIfFalse
  \/ BranchBackLong \/ BranchBackIfTrueLong \/ BranchBackIfFalseLong
  \/ PopAndBranchBackLong
  \/ StackOverflowCheckOp
  \/ Allocate \/ AllocateUnfold \/ AllocateImmutable \/ AllocateImmutableUnfold
  \/ AllocateBoxed
  \/ Throw
  \/ ProcessYield
  \/ CoroutineChange
  \/ Identical \/ IdenticalNonNumeric
  \/ EnterNoSuchMethod \/ ExitNoSuchMethod

Spec == Init /\ [][Next]_vars

\* The registry of default libraries under the calls of the embedder and of
\* the threads that run ForeignLookup, beside an interpreter that has not
\* been started.
InitFFI ==
  /\ InitEngine(CHOOSE sc \in Scenarios : sc.main = "MainRec",
                [attached |-> FALSE, breakpoints |-> {}, is_at_breakpoint |-> FALSE],
                [attached |-> FALSE, is_debugging |-> FALSE, uncaught |-> 0])
  /\ InitRegistry
  /\ InitMemory
  /\ kBitsPerWord = 64

NextFFI ==
  \/ Setup
  \/ \E t \in Threads : TearDown(t)
  \/ \E t \in Threads : AddDefaultSharedLibrary(t)
  \/ \E t \in Threads : ForeignLookup(t)
  \/ \E t \in Threads : LookupInDefaultLibraries(t)

SpecFFI == InitFFI /\ [][NextFFI]_vars

\* The natives over raw memory, on a build of either word size.
InitForeign ==
  /\ InitEngine(CHOOSE sc \in Scenarios : sc.main = "MainRec",
                [attached |-> FALSE, breakpoints |-> {}, is_at_breakpoint |-> FALSE],
                [attached |-> FALSE, is_debugging |-> FALSE, uncaught |-> 0])
  /\ InitRegistry
  /\ InitMemory
  /\ kBitsPerWord \in {32, 64}

NextForeign == ForeignAllocate \/ ForeignFree \/ ForeignGet \/ ForeignSet

SpecForeign == InitForeign /\ [][NextForeign]_vars

\* Sanity of the model: every stack has room for the slots the engine uses,
\* and the bytecode pointer is at an opcode.
StackFits ==
  /\ \A i \in DOMAIN stacks : stacks[i].top <= Len(stacks[i].mem)
  /\ Running => sp + 1 <= Len(Mem(M)) /\ sp >= 1
AtOpcode == Running => Code[bcp] \in STRING

(***************************************************************************)
(* Properties.                                                             *)
(***************************************************************************)
\* The engine's registers: the variables while Interpret runs, otherwise
\* what the next resume restores from the state the engine saved.
Engine == IF Running THEN M ELSE RestoreState(M)

AllocatingOps ==
  {"Allocate", "AllocateUnfold", "AllocateImmutable", "AllocateImmutableUnfold",
   "AllocateBoxed"}
NativeOps == {"InvokeNative", "InvokeNativeYield"}
CallOps ==
  {"InvokeMethod", "InvokeMethodFast", "InvokeMethodVtable", "InvokeStatic",
   "InvokeFactory", "InvokeStaticUnfold", "InvokeFactoryUnfold", "LoadStaticInit"}
  \cup InvokeBuiltinOps \cup InvokeBuiltinFastOps \cup InvokeBuiltinVtableOps
BackBranchOps ==
  {"BranchBack", "BranchBackIfTrue", "BranchBackIfFalse", "BranchBackLong",
   "BranchBackIfTrueLong", "BranchBackIfFalseLong", "PopAndBranchBackLong"}
Called == last.op \in CallOps /\ last.outcome \in {"call", "interrupt"}

\* C1: every retry_after_gc answer of an allocating opcode or a native costs
\* exactly one collection, after which the engine is back at the same opcode
\* with the bcp, the sp and every slot at or below sp of the first attempt
\* (at once, or when resumed if a breakpoint is set there); a retry changes
\* nothing else, and the attempt that succeeds applies the opcode's effect
\* once: one new object on top and bcp past the opcode, or the native's
\* return.
C1_RetryAfterGC ==
  /\ gc_count = retry.sentinels
  /\ retry.pending =>
       /\ interruption \in {"Running", "BreakPoint", "Ready"}
       /\ Code[retry.bcp] \in AllocatingOps \cup NativeOps
       /\ Engine.bcp = retry.bcp
       /\ Engine.sp = retry.sp
       /\ SubSeq(Mem(Engine), 1, retry.sp) = retry.mem
  /\ last.outcome = "retry" =>
       /\ last.op \in AllocatingOps \cup NativeOps
       /\ retry.pending
       /\ Engine.bcp = last.bcp
       /\ Engine.sp = last.sp
       /\ SubSeq(Mem(Engine), 1, last.sp) = SubSeq(last.mem, 1, last.sp)
       /\ Len(heap) = Len(last.heap)
       /\ coroutine = last.coroutine
  /\ last.op \in AllocatingOps /\ last.outcome = "ok" =>
       /\ ~retry.pending
       /\ Len(heap) = Len(last.heap) + 1
       /\ Top(Engine) = Obj(Len(heap))
       /\ Engine.bcp = last.bcp + Length(last.op)
  /\ last.op \in NativeOps /\ last.outcome = "ok" =>
       /\ ~retry.pending
       /\ Len(heap) = Len(last.heap)
       /\ Engine.sp = last.sp - Code[last.bcp + 1]
       /\ Engine.bcp = last.mem[last.sp][2]
       /\ Top(Engine) = IF last.op = "InvokeNative" THEN last.arg ELSE Null

\* An allocation has succeeded at the opcode that was retried twice.
C1_Witness ==
  /\ last.op \in AllocatingOps
  /\ last.outcome = "ok"
  /\ retry.bcp = last.bcp
  /\ retry.sentinels = 2

\* C2: every call opcode leaves as return address, in the slot above the
\* caller's top, the call site's bcp plus the length of that opcode; and a
\* Return that pops the return address a call pushed sets bcp to that call's
\* site plus the length of its opcode.
C2_ReturnAddress ==
  /\ Called =>
       /\ stacks[last.stack].mem[last.sp + 1] = Addr(last.bcp + Length(last.op))
       /\ last.frame.slot = last.sp + 1
       /\ last.frame.addr = last.bcp + Length(last.op)
  /\ last.op = "Return" =>
       /\ last.frame.op \in CallOps
       /\ last.frame.slot = last.sp - Code[last.bcp + 1]
       /\ last.mem[last.frame.slot] = Addr(last.frame.addr)
       /\ Engine.bcp = last.frame.site + Length(last.frame.op)

\* A Return has come back to the site of an InvokeStaticUnfold.
C2_Witness ==
  /\ last.op = "Return"
  /\ last.frame.op = "InvokeStaticUnfold"
  /\ Running

\* C3: after Return with operands (locals, arguments) the top of the stack
\* is the value that was on top before, bcp is the address held by the slot
\* beneath the locals, and the depth is the depth before minus locals, minus
\* arguments, minus one for the return address, plus one for the result.
C3_Return ==
  last.op = "Return" =>
    LET locals == Code[last.bcp + 1]
        arguments == Code[last.bcp + 2]
    IN  /\ Top(Engine) = last.mem[last.sp]
        /\ Engine.bcp = last.mem[last.sp - locals][2]
        /\ Engine.sp = last.sp - locals - arguments - 1 + 1

\* A Return with one local and two arguments has executed.
C3_Witness ==
  /\ last.op = "Return"
  /\ Code[last.bcp + 1] = 1
  /\ Code[last.bcp + 2] = 2
  /\ Running

\* The call sites of the program: the operand each flavour carries.
CallSites == {Site.foo, Site.bar}
OperandOf(site, op) ==
  IF IsInvokeNormal(op) THEN site.selector
  ELSE IF IsInvokeFast(op) THEN site.index
  ELSE site.vselector
InvokedSites ==
  IF Called /\ (IsInvokeNormal(last.op) \/ IsInvokeFast(last.op) \/ IsInvokeVtable(last.op))
  THEN {site \in CallSites :
          OperandOf(site, last.op) = ReadInt32At(Code, last.bcp + 1)}
  ELSE {}

\* C4: whichever flavour of invoke a call site was compiled to, the engine
\* enters the function every flavour finds for the receiver's class, the
\* receiver is read arity slots below the top with the same arity in every
\* flavour, and the return address is the site plus the same offset.
C4_DispatchEquivalence ==
  \A site \in InvokedSites :
    LET before == [bcp |-> last.bcp, sp |-> last.sp, stacks |-> last.stacks,
                   heap |-> last.heap, coroutine |-> last.coroutine]
        normal == InvokeMethodLookup(before, site.selector)
        fast == InvokeMethodFastLookup(before, site.index)
        vtable == InvokeMethodVtableLookup(before, site.vselector)
    IN  /\ fast = normal
        /\ vtable = normal
        /\ Engine.bcp = bytecode_address_for(normal.target, 0)
        /\ Length("InvokeMethod") = Length("InvokeMethodFast")
        /\ Length("InvokeMethod") = Length("InvokeMethodVtable")
        /\ stacks[last.stack].mem[last.sp + 1]
             = Addr(last.bcp + Length("InvokeMethod"))

\* The range scan has sent a receiver no row but the last covers to the
\* no-such-method trampoline.
C4_Witness ==
  /\ InvokedSites # {}
  /\ IsInvokeFast(last.op)
  /\ Engine.bcp = bytecode_address_for(Function.Trampoline, 0)

\* C5: every call, with bcp at the callee and before any opcode of it, every
\* back-branch and every StackOverflowCheck polls; the poll asks the process
\* to grow the stack exactly when sp plus the margin is not below the stack
\* limit; and the engine has surrendered with Interrupt exactly when the
\* process has declined the request of the last poll.
C5_StackOverflowPoll ==
  /\ Called \/ last.op \in BackBranchOps \cup {"StackOverflowCheck"} =>
       last.poll.polled
  /\ Called =>
       /\ last.poll.sp = last.sp + 1
       /\ last.poll.size = 0
       /\ Engine.bcp # last.bcp
       /\ Code[Engine.bcp] \in STRING
  /\ last.op = "StackOverflowCheck" =>
       last.poll.size = ReadInt32At(Code, last.bcp + 1)
  /\ last.poll.polled =>
       /\ last.poll.asked <=> last.poll.sp + last.poll.size >= last.poll.limit
       /\ last.poll.limit = Len(last.mem) - kStackReserve
  /\ interruption = "Interrupt" <=>
       last.poll.polled /\ last.poll.asked /\ ~last.poll.granted

\* A call has asked for more stack and the process has declined.
C5_Witness ==
  /\ Called
  /\ interruption = "Interrupt"
  /\ last.poll.sp + last.poll.size = last.poll.limit

\* C6: while a coroutine is suspended in a CoroutineChange, its stack holds
\* the address of that opcode as saved bcp on top, null in the two slots
\* that held the argument and the target, and beneath them what it held at
\* the switch; when a later CoroutineChange enters it again, the engine is
\* at the opcode after the one it left from, on that stack with the slots
\* beneath unchanged, the saved bcp popped, and the argument passed in the
\* slot that held the target.
C6_CoroutineRoundTrip ==
  /\ \A s \in DOMAIN parked :
       parked[s].valid =>
         LET p == parked[s]
         IN  /\ stacks[s].top = p.sp + 1
             /\ stacks[s].mem[p.sp + 1] = Addr(p.bcp)
             /\ Code[p.bcp] = "CoroutineChange"
             /\ stacks[s].mem[p.sp] = Null
             /\ stacks[s].mem[p.sp - 1] = Null
             /\ SubSeq(stacks[s].mem, 1, p.sp - 2) = SubSeq(p.mem, 1, p.sp - 2)
  /\ last.op = "CoroutineChange" /\ last.resumed.valid =>
       LET p == last.resumed
           target == last.mem[last.sp - 1][2]
       IN  /\ coroutine = target
           /\ process_stack(Engine) = last.heap[target].fields[kStackOffset][2]
           /\ Engine.bcp = p.bcp + Length("CoroutineChange")
           /\ Engine.sp = p.sp - 1
           /\ Top(Engine) = last.arg
           /\ SubSeq(Mem(Engine), 1, p.sp - 2) = SubSeq(p.mem, 1, p.sp - 2)
           /\ parked[last.stack].valid

\* The main coroutine has been entered again by the coroutine it had
\* switched to.
C6_Witness ==
  /\ last.op = "CoroutineChange"
  /\ last.resumed.valid
  /\ coroutine = At.CoA
  /\ last.coroutine = At.CoB
  /\ Running

\* The coroutines from `from` up the caller chain of heap h to `to`, which
\* is left out.
RECURSIVE ChainUpTo(_, _, _)
ChainUpTo(h, from, to) ==
  IF from = to \/ h[from].fields[kCallerOffset][1] # "obj"
  THEN {}
  ELSE {from} \cup ChainUpTo(h, h[from].fields[kCallerOffset][2], to)

\* Whether a catch block covers a bcp held by slots 1..top of mem.
Catches(mem, top) ==
  \E i \in 1..top : \E c \in CatchTable(scenario) :
    /\ mem[i][1] = "bcp"
    /\ c.start <= mem[i][2]
    /\ mem[i][2] <= c.end

ThrowCaughtElsewhere ==
  last.op = "Throw" /\ last.outcome = "caught" /\ coroutine # last.coroutine

\* C7: when a Throw is caught by a coroutine other than the thrower, every
\* coroutine from the thrower up the caller chain to the catcher has a null
\* stack and is its own caller, the current coroutine is the catcher (a
\* catch block covers a bcp of its stack, and no stack on the way had one),
\* and Throw returns nothing: the engine is at the handler with the
\* exception on top, running, or stopped by the dispatch of the handler's
\* first opcode when a breakpoint is set there.
C7_ThrowAcrossCoroutines ==
  ThrowCaughtElsewhere =>
    LET abandoned == ChainUpTo(last.heap, last.coroutine, coroutine)
    IN  /\ last.coroutine \in abandoned
        /\ \A c \in abandoned :
             /\ heap[c].fields[kStackOffset] = Null
             /\ heap[c].fields[kCallerOffset] = Obj(c)
             /\ c # last.coroutine =>
                  LET stack == last.stacks[last.heap[c].fields[kStackOffset][2]]
                  IN  ~Catches(stack.mem, stack.top)
        /\ ~Catches(Append(SubSeq(last.mem, 1, last.sp), Addr(last.bcp)), last.sp + 1)
        /\ heap[coroutine].fields[kStackOffset][1] = "stack"
        /\ Catches(last.stacks[process_stack(M)].mem, last.found.depth)
        /\ last.found.depth = last.stacks[process_stack(M)].top
        /\ interruption \in {"Running", "BreakPoint"}
        /\ interruption = "BreakPoint" <=>
             debug.attached /\ last.found.catch_bcp \in debug.breakpoints
        /\ \E c \in CatchTable(scenario) : Engine.bcp = c.handler
        /\ Top(Engine) = last.arg
        /\ last.arg = last.mem[last.sp]

\* An exception thrown two coroutines up the chain has been caught by the
\* main coroutine.
C7_Witness ==
  /\ ThrowCaughtElsewhere
  /\ Running
  /\ ChainUpTo(last.heap, last.coroutine, coroutine) = {At.CoB, At.CoC}
  /\ coroutine = At.CoA

\* C8: after a caught Throw, bcp is the catch bcp the unwinder returned, the
\* depth of the stack is the depth the unwinder saw (the saved bcp counted)
\* minus the stack delta it returned, and the top slot holds the exception
\* that was on top when Throw was dispatched.
C8_ThrowCaught ==
  last.op = "Throw" /\ last.outcome = "caught" =>
    /\ last.found.catch_bcp # 0
    /\ Engine.bcp = last.found.catch_bcp
    /\ Engine.sp = last.found.depth - last.found.stack_delta
    /\ Top(Engine) = last.arg
    /\ last.arg = last.mem[last.sp]
    /\ coroutine = last.coroutine => last.found.depth = last.sp + 1

\* A Throw in a callee has been caught by a frame beneath it on the same
\* stack.
C8_Witness ==
  /\ last.op = "Throw"
  /\ last.outcome = "caught"
  /\ coroutine = last.coroutine
  /\ last.found.stack_delta = 2
  /\ Running

\* The coroutines of the caller chain that starts at `from` in heap h.
RECURSIVE ChainOf(_, _, _)
ChainOf(h, from, seen) ==
  IF from \in seen \/ h[from].fields[kCallerOffset][1] # "obj"
  THEN seen \cup {from}
  ELSE ChainOf(h, h[from].fields[kCallerOffset][2], seen \cup {from})

\* No stack of the thrower's caller chain holds a bcp a catch block covers.
NothingCatches ==
  /\ ~Catches(Append(SubSeq(last.mem, 1, last.sp), Addr(last.bcp)), last.sp + 1)
  /\ \A c \in ChainOf(last.heap, last.coroutine, {}) \ {last.coroutine} :
       LET stack == last.stacks[last.heap[c].fields[kStackOffset][2]]
       IN  ~Catches(stack.mem, stack.top)

\* C9: a Throw ends uncaught exactly when no stack of the thrower's caller
\* chain has a catch block for it; then, with a session that is debugging,
\* Session::UncaughtException has been called once and Interpret has
\* returned UncaughtException, and without one the process has exited with
\* status 1 and Interpret has not returned. Interpret returns
\* UncaughtException in no other case, and the session hears of no other.
C9_Uncaught ==
  /\ last.op = "Throw" =>
       /\ last.outcome \in {"caught", "uncaught", "exit"}
       /\ last.outcome \in {"uncaught", "exit"} <=> NothingCatches
       /\ last.outcome = "uncaught" <=> NothingCatches /\ session.attached /\ session.is_debugging
  /\ interruption = "UncaughtException" <=> last.op = "Throw" /\ last.outcome = "uncaught"
  /\ session.uncaught = IF interruption = "UncaughtException" THEN 1 ELSE 0
  /\ interruption = "UncaughtException" => exit_status = -1
  /\ exit_status # -1 <=> last.op = "Throw" /\ last.outcome = "exit"
  /\ exit_status # -1 => exit_status = 1 /\ interruption = "Running"

\* An exception no coroutine of the chain catches has been reported to the
\* debugging session.
C9_Witness ==
  /\ interruption = "UncaughtException"
  /\ session.uncaught = 1
  /\ coroutine # last.coroutine

\* C10: ProcessYield surrenders, with Terminate exactly when the value on
\* top at its dispatch was the true object and with Yield otherwise; the
\* slot that held the value holds null, and the bcp saved above it is the
\* address of the opcode after ProcessYield, which is where a resume goes
\* on.
C10_ProcessYield ==
  last.op = "ProcessYield" =>
    /\ interruption \in {"Terminate", "Yield"}
    /\ interruption = "Terminate" <=> last.mem[last.sp] = True
    /\ stacks[last.stack].mem[last.sp] = Null
    /\ stacks[last.stack].top = last.sp + 1
    /\ stacks[last.stack].mem[last.sp + 1] = Addr(last.bcp + Length("ProcessYield"))
    /\ process_stack(M) = last.stack
    /\ Engine.bcp = last.bcp + Length("ProcessYield")
    /\ Engine.sp = last.sp

\* A ProcessYield whose operand was not the true object has yielded.
C10_Witness ==
  /\ last.op = "ProcessYield"
  /\ interruption = "Yield"
  /\ last.mem[last.sp] = Smi(1)

\* C11: an InvokeNativeYield whose native answers a regular value pops the
\* return address and the arguments and leaves null in place of the result;
\* with a non-null answer the engine surrenders with TargetYield,
\* yield_target is the answer and the saved stack has null on top under the
\* saved return address; with a null answer it does not surrender and goes
\* on at the return address (stopping there only for a breakpoint).
C11_NativeYield ==
  (last.op = "InvokeNativeYield" /\ last.outcome = "ok") =>
    /\ process_stack(M) = last.stack
    /\ Engine.bcp = last.mem[last.sp][2]
    /\ Engine.sp = last.sp - Code[last.bcp + 1]
    /\ Top(Engine) = Null
    /\ IF last.arg # Null
       THEN /\ interruption = "TargetYield"
            /\ yield_target = last.arg
            /\ stacks[last.stack].top = Engine.sp + 1
            /\ stacks[last.stack].mem[Engine.sp + 1] = last.mem[last.sp]
            /\ stacks[last.stack].mem[Engine.sp] = Null
       ELSE /\ interruption \in {"Running", "BreakPoint"}
            /\ interruption = "BreakPoint" <=>
                 debug.attached /\ last.mem[last.sp][2] \in debug.breakpoints

\* The native of an InvokeNativeYield has answered a port.
C11_Witness ==
  /\ last.op = "InvokeNativeYield"
  /\ last.outcome = "ok"
  /\ last.arg = <<"port", 1>>
  /\ interruption = "TargetYield"

\* C12: an InvokeNative whose native answers a failure other than
\* retry_after_gc pushes the object for that failure above the return
\* address and goes on after the opcode, the return address and the
\* arguments untouched; one whose native answers a regular value pops the
\* return address, drops the arguments, pushes the value and goes on at the
\* return address.
C12_NativeResult ==
  /\ (last.op = "InvokeNative" /\ last.outcome = "failure") =>
       /\ IsFailure(last.arg)
       /\ last.arg # retry_after_gc
       /\ Engine.bcp = last.bcp + Length("InvokeNative")
       /\ Engine.sp = last.sp + 1
       /\ Top(Engine) = <<"error", last.arg[2]>>
       /\ SubSeq(Mem(Engine), 1, last.sp) = SubSeq(last.mem, 1, last.sp)
  /\ (last.op = "InvokeNative" /\ last.outcome = "ok") =>
       /\ ~IsFailure(last.arg)
       /\ Engine.bcp = last.mem[last.sp][2]
       /\ Engine.sp = last.sp - Code[last.bcp + 1]
       /\ Top(Engine) = last.arg
       /\ SubSeq(Mem(Engine), 1, Engine.sp - 1)
            = SubSeq(last.mem, 1, Engine.sp - 1)

\* A native with an argument has answered a failure.
C12_Witness ==
  /\ last.op = "InvokeNative"
  /\ last.outcome = "failure"
  /\ last.arg = index_out_of_bounds
  /\ Code[last.bcp + 1] > 0

\* C13: no slot of a stack, no static, no field of an instance and no boxed
\* cell holds a failure sentinel.
C13_NoFailureStored ==
  /\ \A s \in DOMAIN stacks :
       \A i \in DOMAIN stacks[s].mem : ~IsFailure(stacks[s].mem[i])
  /\ \A i \in DOMAIN heap :
       \A f \in DOMAIN heap[i].fields : ~IsFailure(heap[i].fields[f])
  /\ \A i \in DOMAIN Statics : ~IsFailure(Statics[i])

\* The object for a failure is on top of the stack.
C13_Witness ==
  /\ last.outcome = "failure"
  /\ Running
  /\ Top(M) = <<"error", 1>>

\* C14: with debug info attached the breakpoint predicate gates every
\* dispatch: the engine is never about to execute the opcode at a breakpoint
\* unless this is the first dispatch of a run that resumed with
\* is_at_breakpoint set, and that run has cleared the flag; a run that starts
\* at a breakpoint without the flag stops at once. When the engine has
\* stopped for a breakpoint, the saved bcp is the breakpoint's pc, whose
\* opcode has not run, and the stack under it is as the previous opcode left
\* it.
C14_BreakpointGate ==
  /\ (Running /\ debug.attached /\ bcp \in debug.breakpoints) =>
       /\ last.op = "Run"
       /\ last.arg = True
  /\ (last.op = "Run" /\ last.arg = True) =>
       /\ Running
       /\ ~debug.is_at_breakpoint
       /\ bcp \in debug.breakpoints
  /\ (last.op = "Run" /\ last.arg = False /\ debug.attached
        /\ Engine.bcp \in debug.breakpoints) =>
       interruption = "BreakPoint"
  /\ debug.is_at_breakpoint => interruption \in {"BreakPoint", "Ready"}
  /\ interruption = "BreakPoint" =>
       /\ debug.attached
       /\ debug.is_at_breakpoint
       /\ bcp \in debug.breakpoints
       /\ stacks[process_stack(M)].top = sp
       /\ Mem(M)[sp] = Addr(bcp)
       /\ last.op = "LoadLiteral0" =>
            /\ SubSeq(Mem(M), 1, sp)
                 = SubSeq(last.mem, 1, last.sp)
                   \o <<Smi(0), Addr(last.bcp + Length("LoadLiteral0"))>>
            /\ heap = last.heap
       /\ (last.op = "InvokeNative" /\ last.outcome = "ok") =>
            /\ SubSeq(Mem(M), 1, sp)
                 = SubSeq(last.mem, 1, last.sp - 1 - Code[last.bcp + 1])
                   \o <<last.arg, last.mem[last.sp]>>
            /\ heap = last.heap
       /\ last.outcome = "retry" =>
            SubSeq(Mem(M), 1, sp)
              = SubSeq(last.mem, 1, last.sp) \o <<Addr(last.bcp)>>
       /\ last.outcome = "call" =>
            SubSeq(Mem(M), 1, sp)
              = SubSeq(last.mem, 1, last.sp)
                \o <<Addr(last.bcp + Length(last.op)), Addr(bcp)>>

\* A run resumed at a breakpoint with the flag set is about to execute the
\* opcode there.
C14_Witness ==
  /\ last.op = "Run"
  /\ last.arg = True
  /\ Running
  /\ bcp \in debug.breakpoints

\* The stack object s of stacks st carries the position (b, p): the bcp b is
\* pushed above slot p and the top is set from there.
Flushed(st, s, b, p) == st[s].top = p + 1 /\ st[s].mem[p + 1] = Addr(b)

\* C15: the stack object a collection or a coroutine switch has seen
\* carries the position the engine had at that operation: the opcode's bcp
\* pushed above its sp, and the top set from there.
C15_FlushedBeforeGCAndSwitch ==
  /\ last.outcome = "retry" =>
       Flushed(stacks, last.stack, last.bcp, last.sp)
  /\ last.op = "CoroutineChange" =>
       /\ Flushed(stacks, last.stack, last.bcp, last.sp)
       /\ process_stack(M) # last.stack

\* The engine has collected garbage for an opcode above the slot where its
\* position was saved last.
C15_Witness ==
  /\ last.outcome = "retry"
  /\ last.op \in AllocatingOps
  /\ last.stacks[last.stack].top < last.sp

\* C15 as stated: also when a native is called, the stack object carries the
\* engine's position.
C15_FlushedBeforeOperation ==
  /\ C15_FlushedBeforeGCAndSwitch
  /\ last.op \in NativeOps =>
       Flushed(last.stacks, last.stack, last.bcp, last.sp)

\* The ways Interpret returns.
Surrenders ==
  {"Yield", "TargetYield", "Terminate", "Interrupt", "BreakPoint",
   "UncaughtException"}

\* C16 as stated: whenever Interpret has returned, whatever the kind, the top
\* of the process's current stack is the engine's sp and the slot there holds
\* the engine's bcp, which is not null.
C16_SavedOnEverySurrender ==
  interruption \in Surrenders =>
    /\ stacks[process_stack(M)].top = sp
    /\ Mem(M)[sp] = Addr(bcp)
    /\ bcp # 0

\* An uncaught exception that has unwound to a caller of the thrower.
UncaughtInCaller ==
  interruption = "UncaughtException" /\ coroutine # last.coroutine

\* C16: whenever Interpret has returned, whatever the kind, the slot at the
\* top index of the process's current stack holds a bcp that is not null, so
\* a later Interpret restores the position saved there. That position is the
\* engine's own sp and bcp except after an uncaught exception that has
\* unwound to a caller: then the current stack is the caller's, as the
\* CoroutineChange it left by saved it, and the engine's sp and bcp are still
\* the thrower's. Saving and restoring the state of a running engine gives
\* back its sp, its bcp and the slots at or below sp.
C16_SavedOnSurrender ==
  /\ interruption \in Surrenders =>
       LET stack == stacks[process_stack(M)]
       IN  /\ stack.mem[stack.top][1] = "bcp"
           /\ stack.mem[stack.top][2] # 0
           /\ Engine.sp = stack.top - 1
           /\ Engine.bcp = stack.mem[stack.top][2]
           /\ ~UncaughtInCaller =>
                /\ stack.top = sp
                /\ stack.mem[sp] = Addr(bcp)
           /\ UncaughtInCaller =>
                /\ Code[stack.mem[stack.top][2]] = "CoroutineChange"
                /\ parked[process_stack(M)].valid
                /\ bcp = last.bcp
                /\ sp = last.sp + 1
  /\ Running =>
       LET restored == RestoreState(SaveState(M))
       IN  /\ restored.sp = sp
           /\ restored.bcp = bcp
           /\ SubSeq(Mem(restored), 1, sp) = SubSeq(Mem(M), 1, sp)

\* An exception nobody catches has unwound from the coroutine that threw it
\* to its caller.
C16_Witness ==
  /\ UncaughtInCaller
  /\ stacks[process_stack(M)].top # sp

\* C17: in every run the process's errno is restored and its lookup cache
\* taken, in that order, before an opcode is dispatched; while the engine
\* runs nothing else is called; when Interpret has returned, whatever the
\* kind, the lookup cache has been released and then errno stored, each
\* once. Run starts with interruption Ready only, and once it has returned
\* interruption is not Ready.
C17_RunBrackets ==
  /\ interruption \in {"Ready", "Running"} \cup Surrenders
  /\ interruption = "Ready" => process_calls = <<>>
  /\ interruption = "Running" =>
       process_calls = <<"RestoreErrno", "TakeLookupCache">>
  /\ interruption \in Surrenders =>
       process_calls = <<"RestoreErrno", "TakeLookupCache",
                         "ReleaseLookupCache", "StoreErrno">>
  /\ last.op \notin {"none", "Interpreter"} =>
       /\ Len(process_calls) >= 2
       /\ SubSeq(process_calls, 1, 2) = <<"RestoreErrno", "TakeLookupCache">>
       /\ interruption # "Ready"
  /\ last.op = "Run" => last.outcome = "Ready"

\* A second run of the process has returned: the program without catch
\* blocks has terminated at the yield it only reaches after it has yielded.
C17_Witness ==
  /\ interruption = "Terminate"
  /\ Len(process_calls) = 4
  /\ scenario.main = "MainAlloc"
  /\ scenario.catchers = {}
  /\ last.bcp = bytecode_address_for(Function.MainAlloc, 40)

\* The call sites the test opcode executed last can have been compiled from.
TestOps == {"InvokeTest", "InvokeTestFast", "InvokeTestVtable"}
TestedSites ==
  IF last.op \in TestOps
  THEN {site \in CallSites :
          ReadInt32At(Code, last.bcp + 1)
            = (CASE last.op = "InvokeTest" -> site.selector
                 [] last.op = "InvokeTestFast" -> site.index
                 [] OTHER -> site.vselector)}
  ELSE {}

\* C18: a test opcode leaves the stack depth and the slots under the top as
\* they were, so it pushes no return address, and goes on after itself; the
\* top holds true exactly when the invoke of the same flavour, for a
\* receiver of the same class and the same operand, finds a function other
\* than the no-such-method entry, and false otherwise; the three flavours
\* of one call site agree on that for the receiver.
C18_InvokeTest ==
  \A site \in TestedSites :
    LET invoked == [bcp |-> last.bcp, sp |-> last.sp + ArityField(site.selector),
                    stacks |-> last.stacks, heap |-> last.heap,
                    coroutine |-> last.coroutine]
        normal == InvokeMethodLookup(invoked, site.selector).target
        fast == InvokeMethodFastLookup(invoked, site.index).target
        vtable == InvokeMethodVtableLookup(invoked, site.vselector).target
        found == CASE last.op = "InvokeTest" -> normal
                   [] last.op = "InvokeTestFast" -> fast
                   [] OTHER -> vtable
    IN  /\ Engine.sp = last.sp
        /\ Engine.bcp = last.bcp + Length(last.op)
        /\ process_stack(M) = last.stack
        /\ SubSeq(Mem(Engine), 1, last.sp - 1) = SubSeq(last.mem, 1, last.sp - 1)
        /\ Top(Engine) = IF found # Function.Trampoline THEN True ELSE False
        /\ (normal # Function.Trampoline) = (fast # Function.Trampoline)
        /\ (normal # Function.Trampoline) = (vtable # Function.Trampoline)
        /\ Length("InvokeTest") = Length("InvokeTestFast")
        /\ Length("InvokeTest") = Length("InvokeTestVtable")

\* The table scan of a fast test has passed a row of classes that respond
\* and answered false for a receiver whose class does not.
C18_Witness ==
  /\ last.op = "InvokeTestFast"
  /\ ReadInt32At(Code, last.bcp + 1) = Site.bar.index
  /\ last.mem[last.sp] = Obj(At.RecvA)
  /\ Top(Engine) = False

\* C19: the instance an AllocateImmutable or an AllocateImmutableUnfold has
\* made is immutable exactly when every operand that became one of its
\* fields was immutable when the attempt that succeeded was dispatched, also
\* when earlier attempts at the same opcode were retried after a collection;
\* an Allocate or an AllocateUnfold makes an instance that is not immutable.
C19_ImmutableFlag ==
  (last.op \in AllocatingOps \ {"AllocateBoxed"} /\ last.outcome = "ok") =>
    LET made == heap[Len(last.heap) + 1]
        fields == NumberOfInstanceFields(made.class)
        dispatched == [bcp |-> last.bcp, sp |-> last.sp, stacks |-> last.stacks,
                       heap |-> last.heap, coroutine |-> last.coroutine]
        operands == {last.mem[last.sp - i] : i \in 0..(fields - 1)}
    IN  /\ made.kind = "Instance"
        /\ Len(made.fields) = fields
        /\ \A k \in 1..fields : made.fields[k] = last.mem[last.sp - fields + k]
        /\ last.op \in {"AllocateImmutable", "AllocateImmutableUnfold"} =>
             (made.immutable <=> \A v \in operands : IsImmutable(dispatched, v))
        /\ last.op \in {"Allocate", "AllocateUnfold"} => ~made.immutable

\* After a collection and a retry, an AllocateImmutableUnfold has made an
\* instance that is not immutable, for an operand that is not.
C19_Witness ==
  /\ last.op = "AllocateImmutableUnfold"
  /\ last.outcome = "ok"
  /\ retry.bcp = last.bcp
  /\ retry.sentinels > 0
  /\ ~heap[Len(last.heap) + 1].immutable
  /\ NumberOfInstanceFields(heap[Len(last.heap) + 1].class) > 0

\* C20: Identical and IdenticalNonNumeric pop two operands and push one
\* boolean, and go on after themselves. Identical answers true for two
\* Doubles exactly when both are NaN or they are equal as IEEE numbers (so
\* for two NaNs, and for +0.0 and -0.0), for two LargeIntegers exactly when
\* their 64-bit values are equal, and for every other pair, mixed kinds
\* included, exactly when they are the same object; IdenticalNonNumeric
\* answers true exactly when the operands are the same object (so false for
\* two NaN objects).
C20_Identical ==
  last.op \in {"Identical", "IdenticalNonNumeric"} =>
    LET left == last.mem[last.sp - 1]
        right == last.mem[last.sp]
        doubles == left[1] = "double" /\ right[1] = "double"
        larges == left[1] = "large" /\ right[1] = "large"
        l == Numbers.double[left[2]]
        r == Numbers.double[right[2]]
        ieee_equal ==
          /\ ~l.nan /\ ~r.nan
          /\ \/ l.magnitude = 0 /\ r.magnitude = 0
             \/ l.magnitude = r.magnitude /\ l.negative = r.negative
        expected ==
          IF last.op = "IdenticalNonNumeric" THEN left = right
          ELSE IF doubles THEN (l.nan /\ r.nan) \/ ieee_equal
          ELSE IF larges THEN Numbers.large[left[2]] = Numbers.large[right[2]]
          ELSE left = right
    IN  /\ Engine.sp = last.sp - 1
        /\ Engine.bcp = last.bcp + Length(last.op)
        /\ SubSeq(Mem(Engine), 1, last.sp - 2) = SubSeq(last.mem, 1, last.sp - 2)
        /\ Top(Engine) = IF expected THEN True ELSE False
        /\ (last.op = "Identical" /\ doubles /\ l.nan /\ r.nan) =>
             Top(Engine) = True
        /\ (last.op = "Identical" /\ doubles /\ ~l.nan /\ ~r.nan
              /\ l.magnitude = 0 /\ r.magnitude = 0) =>
             Top(Engine) = True
        /\ (last.op = "IdenticalNonNumeric" /\ doubles /\ l.nan /\ r.nan
              /\ left # right) =>
             Top(Engine) = False

\* Identical has answered true for two NaN objects.
C20_Witness ==
  /\ last.op = "Identical"
  /\ last.mem[last.sp - 1] = <<"double", 1>>
  /\ last.mem[last.sp] = <<"double", 2>>
  /\ Top(Engine) = True

\* C21: after N calls of AddDefaultSharedLibrary followed by TearDown, every
\* entry of the registry has been deleted exactly once and the strdup copy of
\* its library name freed exactly once, so that no copy is outstanding, for
\* every N from 0 on. The state looked at is the one TearDown's loop leaves,
\* for a TearDown that no other call ran beside.
C21_TearDownFreesAll ==
  \A t \in Threads :
    (/\ threads[t].pc = "tear"
     /\ threads[t].current = 0
     /\ ~threads[t].raced
     /\ teardowns = 1)
    => \A e \in 1..Len(entries) :
         entries[e].deleted = 1 /\ entries[e].freed = 1

C21_Witness ==
  \E t \in Threads :
    /\ threads[t].pc = "tear"
    /\ threads[t].current = 0
    /\ ~threads[t].raced
    /\ teardowns = 1
    /\ Len(entries) = MaxEntries
    /\ \A e \in 1..Len(entries) : entries[e].freed = 1

\* A thread is at a statement that reads or writes the list: the insert of
\* AddDefaultSharedLibrary, the loop of LookupInDefaultLibraries, the loop of
\* TearDown.
InList(t) == threads[t].pc \in {"add", "store", "scan", "tear"}

\* C22: under any interleaving of the threads no two of the operations that
\* mutate or traverse the default-library list (AddDefaultSharedLibrary,
\* LookupInDefaultLibraries, TearDown) access the list at the same time.
C22_ListAccessExclusive ==
  \A t, u \in Threads : InList(t) /\ InList(u) => t = u

\* No entry of the registry has been deleted: what a traversal reads is what
\* AddDefaultSharedLibrary stored.
NothingFreed == \A e \in 1..Len(entries) : entries[e].deleted = 0

\* A call of ForeignLookup under way or about to return.
InLookup(t) == threads[t].pc \in {"defaults", "scan", "return"}

\* C23: each ForeignLookup probes the named library first and, only if that
\* yields no address, the default libraries in list order, the most recently
\* added first, stopping at the first probe that yields an address; every
\* library opened is closed exactly once within its probe; the call returns
\* the address as an integer, or index_out_of_bounds exactly when no probe
\* yielded an address.
C23_ForeignLookup ==
  \A t \in Threads :
    InLookup(t) /\ NothingFreed =>
      \E probes \in {threads[t].probes} : \E n \in {Len(threads[t].probes)} :
        /\ n >= 1
        /\ probes[1].library = threads[t].library
        /\ \A i \in 1..n :
             /\ probes[i].closed = IF probes[i].opened THEN 1 ELSE 0
             /\ i < n => probes[i].result = 0
        /\ threads[t].pc = "defaults" => n = 1 /\ probes[1].result = 0
        /\ threads[t].pc = "scan" =>
             \E list \in {Walk(libraries_)} :
               /\ mutex_.holder = t
               /\ \A i, j \in 1..Len(list) : i < j => list[i] > list[j]
               /\ n - 1 <= Len(list)
               /\ \A i \in 2..n : probes[i].library = entries[list[i - 1]].library_
               /\ threads[t].current = IF n - 1 < Len(list) THEN list[n] ELSE 0
               /\ probes[n].result = 0
        /\ threads[t].pc = "return" =>
             /\ (IsFailure(threads[t].result)
                   /\ threads[t].result = index_out_of_bounds)
                  <=> \A i \in 1..n : probes[i].result = 0
             /\ probes[n].result # 0 =>
                  /\ threads[t].result[1] \in {"Smi", "LargeInteger"}
                  /\ threads[t].result[2] = Int64(probes[n].result)
                  /\ probes[n].found = probes[n].result

C23_Witness ==
  \E t \in Threads :
    /\ threads[t].pc = "return"
    /\ NothingFreed
    /\ Len(threads[t].probes) = 3
    /\ threads[t].probes[3].result = 16
    /\ threads[t].result[1] = "Smi"
    /\ threads[t].result[2] = Int64(16)

\* The integer a 64-bit value is, and the integer that a value reduced to
\* the width and signedness of a type is: nine bytes, the low byte first, in
\* two's complement.
Integer(value) == [i \in 1..9 |-> IF i <= 8 THEN value[i]
                                  ELSE IF value[8] >= 128 THEN 255 ELSE 0]
Reduced(value, type) ==
  [i \in 1..9 |-> IF i <= type.size THEN value[i]
                  ELSE IF type.signed /\ value[type.size] >= 128 THEN 255 ELSE 0]

\* A ForeignGet that answered an integer, of the type and on the buffer of
\* the ForeignSet before it.
GotBack ==
  /\ answer.native = "ForeignGet"
  /\ ~IsFailure(answer.result)
  /\ Len(answer.set) = 2
  /\ answer.set[1] = answer.type

\* The results C24 gives to ForeignSet and to the ForeignGet on a fresh buffer.
SetAndFresh ==
  /\ answer.native = "ForeignSet" => answer.result = answer.value
  /\ answer.native = "ForeignGet" /\ answer.fresh =>
       answer.result[1] = "Smi" /\ answer.result[2] = Int64(0)

\* C24 as stated: ForeignSet<T>(addr, v) followed by ForeignGet<T>(addr)
\* returns v reduced to T's width and signedness, for every width in
\* {8, 16, 32, 64} and signedness; ForeignSet returns its value operand, and
\* ForeignGet on a fresh buffer returns 0.
C24_RoundTripEveryType ==
  /\ SetAndFresh
  /\ GotBack => Integer(answer.result[2]) = Reduced(answer.set[2][2], answer.type)

\* C24, amended: ForeignSet<T>(addr, v) followed by ForeignGet<T>(addr)
\* returns v reduced to T's width and signedness for the widths 8, 16 and
\* 32; for the width 64, of either signedness, it returns the machine word
\* of v as a signed 64-bit integer; ForeignSet returns its value operand, and
\* ForeignGet on a fresh buffer returns 0.
C24_RoundTrip ==
  /\ SetAndFresh
  /\ GotBack =>
       Integer(answer.result[2]) =
         IF answer.type.size < 8
         THEN Reduced(answer.set[2][2], answer.type)
         ELSE Integer(AsForeignWord(answer.set[2]))

C24_Witness ==
  /\ GotBack
  /\ answer.type.suffix = "Int32"
  /\ answer.set[2][2] = <<255, 255, 255, 255, 255, 255, 255, 255>>
  /\ answer.result = <<"Smi", <<255, 255, 255, 255, 255, 255, 255, 255>>>>
  /\ memory[answer.buffer].writes = MaxSets

\* C25: CoroutineChange with (coroutine, argument) on top of the stack makes
\* the stack of the target coroutine the current one, resumes at the bcp
\* saved on that stack plus the length of CoroutineChange, and leaves that
\* stack one slot shallower than its saved operand depth with the argument
\* on top; the stack left behind has null in the two operand slots and the
\* bcp of the CoroutineChange saved above them.
C25_CoroutineChange ==
  last.op = "CoroutineChange" =>
    \E target \in {last.mem[last.sp - 1][2]} :
    \E entered \in {last.heap[last.mem[last.sp - 1][2]].fields[kStackOffset][2]} :
      /\ coroutine = target
      /\ process_stack(Engine) = entered
      /\ entered # last.stack
      /\ Engine.bcp = last.stacks[entered].mem[last.stacks[entered].top][2]
                        + Length("CoroutineChange")
      /\ Engine.sp = (last.stacks[entered].top - 1) - 1
      /\ Top(Engine) = last.mem[last.sp]
      /\ SubSeq(Mem(Engine), 1, Engine.sp - 1)
           = SubSeq(last.stacks[entered].mem, 1, Engine.sp - 1)
      /\ stacks[last.stack].top = last.sp + 1
      /\ stacks[last.stack].mem[last.sp + 1] = Addr(last.bcp)
      /\ stacks[last.stack].mem[last.sp] = Null
      /\ stacks[last.stack].mem[last.sp - 1] = Null
      /\ SubSeq(stacks[last.stack].mem, 1, last.sp - 2)
           = SubSeq(last.mem, 1, last.sp - 2)

\* A coroutine is entered for the first time, with an argument that is not
\* null.
C25_Witness ==
  /\ last.op = "CoroutineChange"
  /\ ~last.resumed.valid
  /\ last.mem[last.sp] # Null
  /\ Top(Engine) = last.mem[last.sp]
  /\ Running

\* The rows of the dispatch table segment at index: the offsets from 4 on in
\* steps of 4, up to the catch-all row, whose bounds are 0 and Smi::kMaxValue.
IsCatchAll(index, offset) ==
  /\ dispatch_table_get(index + offset) = Smi(0)
  /\ dispatch_table_get(index + offset + 1) = Smi(kMaxValue)
RowsOf(index) ==
  {offset \in 4..(Len(DispatchTable) - index - 4) :
     /\ offset % 4 = 0
     /\ \A before \in 4..(offset - 4) : before % 4 = 0 => ~IsCatchAll(index, before)}
Covers(index, offset, class_id) ==
  /\ dispatch_table_get(index + offset)[2] <= class_id
  /\ class_id < dispatch_table_get(index + offset + 1)[2]

\* The scan from offset 4 ends at a row of the segment, hence at or before
\* the catch-all row, and that row is the first that covers the class.
FirstCovering(index, class_id) ==
  \E offset \in {ScanRows(index, 4, class_id)} :
    /\ offset \in RowsOf(index)
    /\ Covers(index, offset, class_id)
    /\ \A before \in RowsOf(index) : before < offset => ~Covers(index, before, class_id)

\* The fast invoke or test executed last: the machine it saw and the class
\* of its receiver.
FastScans ==
  IF last.op \in {"InvokeMethodFast", "InvokeTestFast"}
  THEN {[index |-> ReadInt32At(Code, last.bcp + 1),
         class_id |->
           ClassOf([heap |-> last.heap],
                   last.mem[last.sp -
                     (IF last.op = "InvokeTestFast" THEN 0
                      ELSE ArityField(dispatch_table_get(
                             ReadInt32At(Code, last.bcp + 1) + 1)[2]))])]}
  ELSE {}

\* C26: the range scan of InvokeMethodFast and InvokeTestFast ends, for
\* every class id, in a segment that ends in a catch-all row; it reads no row
\* beyond that one and selects the first row, from offset 4 on in steps of
\* 4, with lower <= class_id < upper; the invoke enters the function at
\* offset + 3 of that row (the test answers by the upper bound of that row).
C26_RangeScan ==
  /\ \A site \in CallSites : \A class_id \in {Class[c] : c \in DOMAIN Class} :
       FirstCovering(site.index, class_id)
  /\ \A scan \in FastScans :
       /\ FirstCovering(scan.index, scan.class_id)
       /\ \E offset \in {ScanRows(scan.index, 4, scan.class_id)} :
            IF last.op = "InvokeMethodFast"
            THEN Called =>
                   Engine.bcp = bytecode_address_for(
                     dispatch_table_get(scan.index + offset + 3)[2], 0)
            ELSE Top(Engine) = IF IsCatchAll(scan.index, offset) THEN False ELSE True

\* A fast test has passed a row that does not cover the receiver's class
\* and answered by the second row of the segment, which is not the catch-all.
C26_Witness ==
  /\ last.op = "InvokeTestFast"
  /\ \E scan \in FastScans :
       /\ scan.index = Site.bar.index
       /\ ~Covers(scan.index, 4, scan.class_id)
       /\ ScanRows(scan.index, 4, scan.class_id) = 8
       /\ ~IsCatchAll(scan.index, 8)
  /\ Top(Engine) = True

\* The call site whose invoke pushed the return address that the
\* EnterNoSuchMethod executed last found on top, and the opcode of that
\* invoke.
StubbedOpcode == Code[last.mem[last.sp][2] - 5]
StubbedSites ==
  IF last.op = "EnterNoSuchMethod"
  THEN {site \in CallSites :
          OperandOf(site, StubbedOpcode)
            = ReadInt32At(Code, last.mem[last.sp][2] - 4)}
  ELSE {}

\* C27: for each of the three invoke flavours that reached the
\* no-such-method stub, EnterNoSuchMethod recovers the selector of the
\* original call site from the five bytes before the saved return address,
\* reads the receiver of the original call by the arity of that selector, and
\* grows the stack by exactly the three slots selector_smi, receiver,
\* selector_smi above the untouched return address and arguments.
C27_EnterNoSuchMethod ==
  \A site \in StubbedSites :
    /\ Engine.sp = last.sp + 3
    /\ Engine.bcp = last.bcp + Length("EnterNoSuchMethod")
    /\ process_stack(Engine) = last.stack
    /\ SubSeq(Mem(Engine), 1, last.sp) = SubSeq(last.mem, 1, last.sp)
    /\ Local(Engine, 0) = Smi(site.selector)
    /\ Local(Engine, 1) = last.mem[last.sp - (ArityField(site.selector) + 1)]
    /\ Local(Engine, 2) = Smi(site.selector)


\* The call sites whose invoke entered the trampoline that the
\* ExitNoSuchMethod executed last has left: the frame it popped names the
\* invoke and the slot of its return address.
ExitedSites ==
  IF last.op = "ExitNoSuchMethod"
  THEN {site \in CallSites :
          OperandOf(site, last.frame.op) = ReadInt32At(Code, last.frame.site + 1)}
  ELSE {}

\* C28: an EnterNoSuchMethod ... ExitNoSuchMethod pair leaves the caller as
\* a normal call and Return would: bcp is the return address of the original
\* invoke, the receiver and the arity arguments are gone and one result lies
\* in their place above an untouched stack; the result is what the handler
\* returned, but for a selector of kind SETTER it is the assigned value, the
\* argument of the original call.
C28_NoSuchMethodPair ==
  last.op = "ExitNoSuchMethod" =>
    /\ ExitedSites # {}
    /\ \A site \in ExitedSites :
         \E arity \in {ArityField(site.selector)} :
           /\ last.frame.addr = last.frame.site + Length(last.frame.op)
           /\ Engine.bcp = last.frame.addr
           /\ process_stack(Engine) = last.stack
           /\ Engine.sp = (last.frame.slot - 1) - (arity + 1) + 1
           /\ SubSeq(Mem(Engine), 1, Engine.sp - 1)
                = SubSeq(last.mem, 1, Engine.sp - 1)
           /\ Top(Engine) = IF KindField(site.selector) = SETTER
                            THEN last.mem[last.frame.slot - 1]
                            ELSE last.mem[last.sp]

\* The trampoline entered from the setter call of site bar has been left
\* with the assigned value, which is not what the handler returned.
C28_Witness ==
  /\ last.op = "ExitNoSuchMethod"
  /\ Site.bar \in ExitedSites
  /\ KindField(Site.bar.selector) = SETTER
  /\ Top(Engine) = Smi(1)
  /\ last.mem[last.sp] = False
  /\ Running

\* The class the instance-allocating opcode executed last names: a class
\* index in its operand, or the constant its operand points at.
InstanceOps ==
  {"Allocate", "AllocateUnfold", "AllocateImmutable", "AllocateImmutableUnfold"}
AllocatedClass ==
  IF last.op \in {"Allocate", "AllocateImmutable"}
  THEN ReadInt32At(Code, last.bcp + 1)
  ELSE Code[last.bcp + ReadInt32At(Code, last.bcp + 1)][2]

\* C29: Allocate, AllocateUnfold, AllocateImmutable and
\* AllocateImmutableUnfold for a class with k instance fields pop exactly k
\* operands and push the new Instance (depth change 1 - k) above an untouched
\* stack; field i, counted from 0, holds the (i+1)-th operand in push order,
\* so the operand pushed last is field k-1; bcp advances by the length of
\* the opcode executed.
C29_Allocate ==
  (last.op \in InstanceOps /\ last.outcome = "ok") =>
    \E k \in {NumberOfInstanceFields(AllocatedClass)} :
      /\ Engine.sp = last.sp + 1 - k
      /\ Engine.bcp = last.bcp + Length(last.op)
      /\ process_stack(Engine) = last.stack
      /\ SubSeq(Mem(Engine), 1, last.sp - k) = SubSeq(last.mem, 1, last.sp - k)
      /\ Top(Engine) = Obj(Len(last.heap) + 1)
      /\ Len(Engine.heap) = Len(last.heap) + 1
      /\ Engine.heap[Len(last.heap) + 1].kind = "Instance"
      /\ Engine.heap[Len(last.heap) + 1].class = AllocatedClass
      /\ Len(Engine.heap[Len(last.heap) + 1].fields) = k
      /\ \A i \in 0..(k - 1) :
           Engine.heap[Len(last.heap) + 1].fields[i + 1]
             = last.mem[last.sp - k + 1 + i]

\* An instance of two fields has been made from two different operands.
C29_Witness ==
  /\ last.op \in InstanceOps
  /\ last.outcome = "ok"
  /\ NumberOfInstanceFields(AllocatedClass) = 2
  /\ last.mem[last.sp - 1] # last.mem[last.sp]
  /\ Engine.heap[Len(last.heap) + 1].fields[2] = last.mem[last.sp]
  /\ Running

\* The engine has surrendered with Interrupt from the opcode executed last.
Interrupted == interruption = "Interrupt" /\ last.outcome = "interrupt"

\* C30: a surrender with Interrupt applies no opcode's effect partially or
\* twice. From a back-branch, a PopAndBranchBackLong or a StackOverflowCheck
\* the position saved is the opcode itself on the stack it was dispatched
\* on, branch condition and slots to pop included, so that resuming executes
\* it once; from the poll after a call the return address lies once above
\* the untouched stack of the call and the position saved is the first
\* bytecode of a function, the callee, so that resuming does not repeat the
\* call.
C30_Interrupt ==
  /\ interruption = "Interrupt" =>
       /\ last.outcome = "interrupt"
       /\ Called \/ last.op \in BackBranchOps \cup {"StackOverflowCheck"}
  /\ Interrupted =>
       /\ process_stack(Engine) = last.stack
       /\ Engine.coroutine = last.coroutine
       /\ Engine.heap = last.heap
       /\ SubSeq(Mem(Engine), 1, last.sp) = SubSeq(last.mem, 1, last.sp)
  /\ (Interrupted /\ ~Called) =>
       /\ Engine.bcp = last.bcp
       /\ Code[Engine.bcp] = last.op
       /\ Engine.sp = last.sp
  /\ (Interrupted /\ Called) =>
       /\ Engine.sp = last.sp + 1
       /\ Top(Engine) = Addr(last.bcp + Length(last.op))
       /\ last.frame.slot = Engine.sp
       /\ last.frame.site = last.bcp
       /\ Engine.bcp \in {bytecode_address_for(fn, 0) : fn \in DOMAIN Functions}
       /\ Engine.bcp # last.bcp

\* A PopAndBranchBackLong has surrendered with Interrupt; the slot it is
\* to pop is still on the stack saved.
C30_Witness ==
  /\ Interrupted
  /\ last.op = "PopAndBranchBackLong"
  /\ Code[last.bcp + 1] = 4
  /\ Engine.sp = last.sp
  /\ Mem(Engine)[Engine.sp] = last.mem[last.sp]

\* The opcode executed last is still pending: it asked for a collection and
\* is to be dispatched again at the same bcp.
PendingRetry == last.outcome = "retry" /\ retry.pending /\ Engine.bcp = last.bcp

\* C31: once Interpret is resumed at a breakpoint with is_at_breakpoint set,
\* the opcode at the breakpoint is executed to completion before the
\* breakpoint predicate is consulted again. An opcode at a breakpoint is
\* dispatched by such a resumed run only, or again by its own retry after a
\* collection; the resumed run is running at the breakpoint with the flag
\* cleared; and Interpret does not return BreakPoint for an opcode that is
\* still pending, also when the opcode needs a retry after a collection.
C31_BreakpointOnce ==
  /\ (Running /\ debug.attached /\ bcp \in debug.breakpoints) =>
       \/ last.op = "Run" /\ last.arg = True
       \/ PendingRetry
  /\ (last.op = "Run" /\ last.arg = True) =>
       /\ Running
       /\ bcp \in debug.breakpoints
       /\ ~debug.is_at_breakpoint
  /\ interruption = "BreakPoint" => ~PendingRetry

\* The process state HandleThrow was called with by the Throw executed
\* last, and the coroutines its loop visits in at most n rounds, in order.
Thrown ==
  SaveState([bcp |-> last.bcp, sp |-> last.sp, stacks |-> last.stacks,
             heap |-> last.heap, coroutine |-> last.coroutine])
Coroutines == {i \in DOMAIN InitialHeap : InitialHeap[i].kind = "Coroutine"}
RECURSIVE Visits(_, _)
Visits(m, n) ==
  IF n = 0 THEN <<>>
  ELSE IF ComputeCatchBlock(m).catch_bcp # 0 \/ ~has_caller(m, m.coroutine)
       THEN <<m.coroutine>>
       ELSE <<m.coroutine>> \o Visits(Abandon(m), n - 1)
Visited == Visits(Thrown, Cardinality(Coroutines) + 1)

C33_NoUseAfterFree ==
  /\ (teardowns > 0 /\ \A t \in Threads : threads[t].pc = "idle") =>
       \A i \in DOMAIN Walk(libraries_) :
         entries[Walk(libraries_)[i]].deleted = 0
  /\ \A e \in DOMAIN entries :
       /\ ~entries[e].stale
       /\ entries[e].deleted <= 1
       /\ entries[e].freed <= 1

====
